---- MODULE Spec2Model ----
(***************************************************************************)
(* A model of the parsing and reflow core of sqlfluff: the slice based     *)
(* match result (core/parser/match_result.py), the parse driver of         *)
(* BaseSegment (parser/segments_base.py), the OneOf and Delimited          *)
(* grammars, and the reindent engine (utils/reflow/reindent.py).           *)
(*                                                                         *)
(* Each component has its own variables and its own specification; a       *)
(* specification leaves the variables of the other components idle.        *)
(***************************************************************************)
EXTENDS Integers, Sequences, FiniteSets, TLC

VARIABLES
    \* ---- MatchResult2.apply
    segments,       \* the root tuple of tokens every slice refers to
    match,          \* the MatchResult2 under test
    applied,        \* what match.apply(segments) gave: [ok, segs]
    mrpc,           \* "new" before the call, "applied" after
    \* ---- BaseSegment.parse / BaseSegment.expand
    tree,           \* the segment parse() was called on, with its subtree
    tree0,          \* the same segment as it was before the call
    stack,          \* the parse() calls in progress, innermost last
    lastm,          \* m: what the parse grammar returned last
    perr,           \* the exception that ended parsing, "none" while there is none
    \* ---- failed matches: MatchResult2.empty_at and BaseSegment.match
    mcls,           \* the segment class match() is called on
    msegs,          \* the segments it is given
    gres,           \* what the match grammar returned
    mres,           \* what match() returned or raised
    eres,           \* the result of MatchResult2.empty_at
    \* ---- the OneOf grammar
    otoks,          \* the tokens it is matched against
    oalts,          \* its alternatives, in declaration order
    ores,           \* the match it returned: [done, alt, len]
    \* ---- the Delimited grammar
    dtoks,          \* the tokens it is matched against
    dcfg,           \* min_delimiters, allow_gaps, allow_trailing
    dres,           \* the match it returned: [done, len, delims]
    \* ---- lint_indent_points
    relems,         \* elements: the reflow sequence the call is given
    rpc,            \* where the call stands
    rpass,          \* 1 for the first call, 2 for the call on its output
    rlines,         \* lines: the _IndentLine list after the revisions
    rline,          \* the line the loop over lines is at
    rbuf,           \* elem_buffer
    rforced,        \* forced_indents
    rresults,       \* results
    rerr,           \* the exception the call raised, "none" while there is none
    rout1,          \* what the first call returned
    rdes,           \* the last call of desired_indent_units: line, argument, result
    rgroups,        \* sorted_group_indices, each group as its lines
    rgroup,         \* the group the loop of _revise_templated_lines is at
    rrev,           \* its last turn: the lines before it, the group, the case
    \* ---- _lint_line_untaken_negative_indents
    nelems,         \* elements
    nline,          \* indent_line
    nforced,        \* forced_indents
    nout,           \* the elements as the call left them and the results it returned
    \* ---- Rule_L003._process_current_line
    hres,          \* memory.line_summaries - the summaries of the lines before the current one
    hmem,          \* memory - problem_lines hanging_lines and comment_lines
    hcall,         \* the last call of _process_current_line - its line and what it returned
    \* ---- MatchResult2.append and MatchResult2.wrap
    cheap,         \* the MatchResult2 objects there are - a reference is a place in this sequence
    ckw,           \* the dict objects there are - segment_kwargs refers to one
    clast,         \* the last call of append or wrap - its operands and what it returned
    \* ---- BaseSegment.apply_fixes and BaseSegment.realign
    fheap,         \* the segment objects there are - a reference is a place in this sequence
    froot,         \* the segment apply_fixes or realign is called on
    ffixes,        \* the fixes the call is given
    fcall,         \* the call made - what it returned or raised
    \* ---- _crawl_indent_points, one turn of its loop at a time
    kelems,        \* elements
    kidx,          \* idx - the element the loop is at
    kbreak,        \* last_line_break_idx
    kbalance,      \* indent_balance
    kuntaken,      \* untaken_indents
    kyield,        \* the _IndentPoint values yielded so far
    klast,         \* the last point crossed - the values it was met with and the untaken indents kept
    \* ---- _resolve_paths_in_config
    gconfig,       \* config - the dict as it is
    gexists,       \* the paths for which os.path.exists is true
    gcall,         \* the call of _resolve_paths_in_config - the dict before it and the exception raised
    \* ---- the list objects of lint_indent_points
    lheap,         \* the list objects by their identity
    lelements,     \* elements - the identity of the list the call is given
    lgiven,        \* the elements of that list when the call is made
    lbuf,          \* elem_buffer - the identity of the list it names
    lpc,           \* the position in lint_indent_points
    llines,        \* lines
    lline,         \* the index of the line the loop is at
    lforced,       \* forced_indents
    lresults       \* results

varsMR == <<segments, match, applied, mrpc>>

varsParse == <<tree, tree0, stack, lastm, perr>>

varsMatch == <<mcls, msegs, gres, mres, eres>>

varsOneOf == <<otoks, oalts, ores>>

varsDelimited == <<dtoks, dcfg, dres>>

varsReindent ==
    <<relems, rpc, rpass, rlines, rline, rbuf, rforced, rresults, rerr, rout1, rdes,
      rgroups, rgroup, rrev>>

varsNegative == <<nelems, nline, nforced, nout>>

varsL003 == <<hres, hmem, hcall>>

varsCombine == <<cheap, ckw, clast>>

varsFix == <<fheap, froot, ffixes, fcall>>

varsCrawl == <<kelems, kidx, kbreak, kbalance, kuntaken, kyield, klast>>

varsConfig == <<gconfig, gexists, gcall>>

varsLists == <<lheap, lelements, lgiven, lbuf, lpc, llines, lline, lforced, lresults>>

vars ==
    <<varsMR, varsParse, varsMatch, varsOneOf, varsDelimited, varsReindent,
      varsNegative, varsL003, varsCombine, varsFix, varsCrawl, varsConfig, varsLists>>

\* what each specification leaves unchanged
OthersThanMR ==
    <<varsParse, varsMatch, varsOneOf, varsDelimited, varsReindent, varsNegative,
      varsL003, varsCombine, varsFix, varsCrawl, varsConfig, varsLists>>

OthersThanParse ==
    <<varsMR, varsMatch, varsOneOf, varsDelimited, varsReindent, varsNegative,
      varsL003, varsCombine, varsFix, varsCrawl, varsConfig, varsLists>>

OthersThanMatch ==
    <<varsMR, varsParse, varsOneOf, varsDelimited, varsReindent, varsNegative,
      varsL003, varsCombine, varsFix, varsCrawl, varsConfig, varsLists>>

OthersThanOneOf ==
    <<varsMR, varsParse, varsMatch, varsDelimited, varsReindent, varsNegative,
      varsL003, varsCombine, varsFix, varsCrawl, varsConfig, varsLists>>

OthersThanDelimited ==
    <<varsMR, varsParse, varsMatch, varsOneOf, varsReindent, varsNegative, varsL003,
      varsCombine, varsFix, varsCrawl, varsConfig, varsLists>>

OthersThanReindent ==
    <<varsMR, varsParse, varsMatch, varsOneOf, varsDelimited, varsNegative, varsL003,
      varsCombine, varsFix, varsCrawl, varsConfig, varsLists>>

OthersThanNegative ==
    <<varsMR, varsParse, varsMatch, varsOneOf, varsDelimited, varsReindent, varsL003,
      varsCombine, varsFix, varsCrawl, varsConfig, varsLists>>

OthersThanL003 ==
    <<varsMR, varsParse, varsMatch, varsOneOf, varsDelimited, varsReindent,
      varsNegative, varsCombine, varsFix, varsCrawl, varsConfig, varsLists>>

OthersThanCombine ==
    <<varsMR, varsParse, varsMatch, varsOneOf, varsDelimited, varsReindent,
      varsNegative, varsL003, varsFix, varsCrawl, varsConfig, varsLists>>

OthersThanFix ==
    <<varsMR, varsParse, varsMatch, varsOneOf, varsDelimited, varsReindent,
      varsNegative, varsL003, varsCombine, varsCrawl, varsConfig, varsLists>>

OthersThanCrawl ==
    <<varsMR, varsParse, varsMatch, varsOneOf, varsDelimited, varsReindent,
      varsNegative, varsL003, varsCombine, varsFix, varsConfig, varsLists>>

OthersThanConfig ==
    <<varsMR, varsParse, varsMatch, varsOneOf, varsDelimited, varsReindent,
      varsNegative, varsL003, varsCombine, varsFix, varsCrawl, varsLists>>

OthersThanLists ==
    <<varsMR, varsParse, varsMatch, varsOneOf, varsDelimited, varsReindent,
      varsNegative, varsL003, varsCombine, varsFix, varsCrawl, varsConfig>>

\* the values of the variables of a component that is not running
IdleMR ==
    /\ segments = <<>>
    /\ match = <<>>
    /\ applied = <<>>
    /\ mrpc = "idle"

IdleParse ==
    /\ tree = <<>>
    /\ tree0 = <<>>
    /\ stack = <<>>
    /\ lastm = <<>>
    /\ perr = "idle"

IdleMatch ==
    /\ mcls = "idle"
    /\ msegs = <<>>
    /\ gres = <<>>
    /\ mres = <<>>
    /\ eres = <<>>

IdleOneOf ==
    /\ otoks = <<>>
    /\ oalts = <<>>
    /\ ores = <<>>

IdleDelimited ==
    /\ dtoks = <<>>
    /\ dcfg = <<>>
    /\ dres = <<>>

IdleReindent ==
    /\ relems = <<>>
    /\ rpc = "idle"
    /\ rpass = 0
    /\ rlines = <<>>
    /\ rline = 0
    /\ rbuf = <<>>
    /\ rforced = <<>>
    /\ rresults = <<>>
    /\ rerr = "idle"
    /\ rout1 = <<>>
    /\ rdes = <<>>
    /\ rgroups = <<>>
    /\ rgroup = 0
    /\ rrev = <<>>

IdleNegative ==
    /\ nelems = <<>>
    /\ nline = <<>>
    /\ nforced = <<>>
    /\ nout = <<>>

IdleL003 ==
    /\ hres = <<>>
    /\ hmem = <<>>
    /\ hcall = <<>>

IdleCombine ==
    /\ cheap = <<>>
    /\ ckw = <<>>
    /\ clast = <<>>

IdleFix ==
    /\ fheap = <<>>
    /\ froot = 0
    /\ ffixes = <<>>
    /\ fcall = <<>>

IdleCrawl ==
    /\ kelems = <<>>
    /\ kidx = 0
    /\ kbreak = 0
    /\ kbalance = 0
    /\ kuntaken = <<>>
    /\ kyield = <<>>
    /\ klast = <<>>

IdleConfig ==
    /\ gconfig = <<>>
    /\ gexists = {}
    /\ gcall = <<>>

IdleLists ==
    /\ lheap = <<>>
    /\ lelements = 0
    /\ lgiven = <<>>
    /\ lbuf = 0
    /\ lpc = "idle"
    /\ llines = <<>>
    /\ lline = 0
    /\ lforced = <<>>
    /\ lresults = <<>>

IdleOthersMR ==
    /\ IdleParse
    /\ IdleMatch
    /\ IdleOneOf
    /\ IdleDelimited
    /\ IdleReindent
    /\ IdleNegative
    /\ IdleL003
    /\ IdleCombine
    /\ IdleFix
    /\ IdleCrawl
    /\ IdleConfig
    /\ IdleLists

IdleOthersParse ==
    /\ IdleMR
    /\ IdleMatch
    /\ IdleOneOf
    /\ IdleDelimited
    /\ IdleReindent
    /\ IdleNegative
    /\ IdleL003
    /\ IdleCombine
    /\ IdleFix
    /\ IdleCrawl
    /\ IdleConfig
    /\ IdleLists

IdleOthersMatch ==
    /\ IdleMR
    /\ IdleParse
    /\ IdleOneOf
    /\ IdleDelimited
    /\ IdleReindent
    /\ IdleNegative
    /\ IdleL003
    /\ IdleCombine
    /\ IdleFix
    /\ IdleCrawl
    /\ IdleConfig
    /\ IdleLists

IdleOthersOneOf ==
    /\ IdleMR
    /\ IdleParse
    /\ IdleMatch
    /\ IdleDelimited
    /\ IdleReindent
    /\ IdleNegative
    /\ IdleL003
    /\ IdleCombine
    /\ IdleFix
    /\ IdleCrawl
    /\ IdleConfig
    /\ IdleLists

IdleOthersDelimited ==
    /\ IdleMR
    /\ IdleParse
    /\ IdleMatch
    /\ IdleOneOf
    /\ IdleReindent
    /\ IdleNegative
    /\ IdleL003
    /\ IdleCombine
    /\ IdleFix
    /\ IdleCrawl
    /\ IdleConfig
    /\ IdleLists

IdleOthersReindent ==
    /\ IdleMR
    /\ IdleParse
    /\ IdleMatch
    /\ IdleOneOf
    /\ IdleDelimited
    /\ IdleNegative
    /\ IdleL003
    /\ IdleCombine
    /\ IdleFix
    /\ IdleCrawl
    /\ IdleConfig
    /\ IdleLists

IdleOthersNegative ==
    /\ IdleMR
    /\ IdleParse
    /\ IdleMatch
    /\ IdleOneOf
    /\ IdleDelimited
    /\ IdleReindent
    /\ IdleL003
    /\ IdleCombine
    /\ IdleFix
    /\ IdleCrawl
    /\ IdleConfig
    /\ IdleLists

IdleOthersL003 ==
    /\ IdleMR
    /\ IdleParse
    /\ IdleMatch
    /\ IdleOneOf
    /\ IdleDelimited
    /\ IdleReindent
    /\ IdleNegative
    /\ IdleCombine
    /\ IdleFix
    /\ IdleCrawl
    /\ IdleConfig
    /\ IdleLists

IdleOthersCombine ==
    /\ IdleMR
    /\ IdleParse
    /\ IdleMatch
    /\ IdleOneOf
    /\ IdleDelimited
    /\ IdleReindent
    /\ IdleNegative
    /\ IdleL003
    /\ IdleFix
    /\ IdleCrawl
    /\ IdleConfig
    /\ IdleLists

IdleOthersFix ==
    /\ IdleMR
    /\ IdleParse
    /\ IdleMatch
    /\ IdleOneOf
    /\ IdleDelimited
    /\ IdleReindent
    /\ IdleNegative
    /\ IdleL003
    /\ IdleCombine
    /\ IdleCrawl
    /\ IdleConfig
    /\ IdleLists

IdleOthersCrawl ==
    /\ IdleMR
    /\ IdleParse
    /\ IdleMatch
    /\ IdleOneOf
    /\ IdleDelimited
    /\ IdleReindent
    /\ IdleNegative
    /\ IdleL003
    /\ IdleCombine
    /\ IdleFix
    /\ IdleConfig
    /\ IdleLists

IdleOthersConfig ==
    /\ IdleMR
    /\ IdleParse
    /\ IdleMatch
    /\ IdleOneOf
    /\ IdleDelimited
    /\ IdleReindent
    /\ IdleNegative
    /\ IdleL003
    /\ IdleCombine
    /\ IdleFix
    /\ IdleCrawl
    /\ IdleLists

IdleOthersLists ==
    /\ IdleMR
    /\ IdleParse
    /\ IdleMatch
    /\ IdleOneOf
    /\ IdleDelimited
    /\ IdleReindent
    /\ IdleNegative
    /\ IdleL003
    /\ IdleCombine
    /\ IdleFix
    /\ IdleCrawl
    /\ IdleConfig

-----------------------------------------------------------------------------
(* Generic helpers *)

Min(S) == CHOOSE x \in S : \A y \in S : x <= y

Max(S) == CHOOSE x \in S : \A y \in S : x >= y

RECURSIVE SortedSeq(_)
\* sorted(S) for a finite set of integers
SortedSeq(S) == IF S = {} THEN <<>> ELSE <<Min(S)>> \o SortedSeq(S \ {Min(S)})

\* Python's seq[a:b] on a 0-based tuple (indices are clipped, never raise)
PySlice(s, a, b) ==
    LET lo == IF a < 0 THEN 0 ELSE a
        hi == IF b > Len(s) THEN Len(s) ELSE b
    IN  IF hi <= lo THEN <<>> ELSE SubSeq(s, lo + 1, hi)

RECURSIVE ConcatAll(_)
ConcatAll(ss) == IF ss = <<>> THEN <<>> ELSE Head(ss) \o ConcatAll(Tail(ss))

-----------------------------------------------------------------------------
(* Segments and the parse driver (parser/segments_base.py) *)

\* Bounds of the parse driver's inputs
MaxChildren == 3

\* RawSegment(raw, pos_marker): a leaf; " " is whitespace, the rest is code
RawSegment(ch, pos) ==
    [kind |-> "raw", cls |-> "Raw", raw |-> <<ch>>, pos |-> pos, kids |-> <<>>]

\* cls(segments=...): pos_marker is the pos of the first segment
BaseSegment(cls, segs) ==
    [kind |-> "node", cls |-> cls, raw |-> <<>>, pos |-> segs[1].pos, kids |-> segs]

\* UnparsableSegment(segments=..., expected=...)
UnparsableSegment(segs) == BaseSegment("Unparsable", segs)

\* The classes of the model's dialect: Statement and Clause define a parse
\* grammar, Plain and Unparsable define none.
_parse_grammar(cls) == cls \in {"Statement", "Clause"}

\* the classes the grammar of a class can create
Produces(cls) == IF cls = "Statement" THEN {"Clause", "Plain"} ELSE {"Plain"}

RECURSIVE SegRawP(_)
\* BaseSegment._reconstruct / RawSegment._reconstruct
SegRawP(seg) ==
    IF seg.kind = "raw" THEN seg.raw
    ELSE ConcatAll([k \in 1..Len(seg.kids) |-> SegRawP(seg.kids[k])])

\* join_segments_raw
join_segments_raw(segs) == ConcatAll([k \in 1..Len(segs) |-> SegRawP(segs[k])])

RECURSIVE is_code(_)
\* RawSegment.is_code / BaseSegment.is_code
is_code(seg) ==
    IF seg.kind = "raw" THEN seg.raw # <<" ">>
    ELSE \E k \in 1..Len(seg.kids) : is_code(seg.kids[k])

\* every segment, a raw one too, is taken to be expandable
is_expandable_Always(seg) == TRUE

RECURSIVE is_expandable(_)
\* RawSegment.is_expandable / BaseSegment.is_expandable
is_expandable(seg) ==
    IF seg.kind = "raw" THEN FALSE
    ELSE IF _parse_grammar(seg.cls) THEN TRUE
    ELSE \E k \in 1..Len(seg.kids) : is_expandable(seg.kids[k])

RECURSIVE get_start_pos_marker(_)
get_start_pos_marker(seg) ==
    IF seg.kind = "raw" THEN seg.pos ELSE get_start_pos_marker(seg.kids[1])

\* PositionMarker.advance_by on one-line text
advance_by(pos, raw) == pos + Len(raw)

RECURSIVE get_end_pos_marker(_)
get_end_pos_marker(seg) ==
    IF seg.kind = "raw" THEN advance_by(seg.pos, seg.raw)
    ELSE get_end_pos_marker(seg.kids[Len(seg.kids)])

\* the positions are not looked at
validate_segments_Unchecked(segs) == TRUE

\* validate_segments(validate=True) does not raise TypeError
validate_segments(segs) ==
    \A k \in 1..Len(segs) :
        /\ k > 1 => get_start_pos_marker(segs[k]) = get_end_pos_marker(segs[k - 1])
        /\ advance_by(get_start_pos_marker(segs[k]), SegRawP(segs[k]))
              = get_end_pos_marker(segs[k])

\* mutant of check_still_complete: the comparison is skipped
check_still_complete_Skipped(segments_in, matched_segments, unmatched_segments) == TRUE

\* check_still_complete does not raise RuntimeError
check_still_complete(segments_in, matched_segments, unmatched_segments) ==
    join_segments_raw(segments_in) = join_segments_raw(matched_segments \o unmatched_segments)

\* MatchResult (the tuple based match result)
MatchResult(matched, unmatched) == [matched |-> matched, unmatched |-> unmatched]

has_match(m) == Len(m.matched) > 0

is_complete(m) == Len(m.unmatched) = 0 /\ Len(m.matched) > 0

RECURSIVE GetAt(_, _)
\* the segment reached from seg by a path of child indices
GetAt(seg, path) ==
    IF path = <<>> THEN seg ELSE GetAt(seg.kids[Head(path)], Tail(path))

RECURSIVE SetKidsAt(_, _, _)
\* seg with self.segments of the segment at path assigned
SetKidsAt(seg, path, newkids) ==
    IF path = <<>> THEN [seg EXCEPT !.kids = newkids]
    ELSE [seg EXCEPT !.kids[Head(path)] = SetKidsAt(@, Tail(path), newkids)]

\* ParseContext.may_recurse; recurse is -1 for True (no limit)
may_recurse(recurse) == recurse = -1 \/ recurse > 1

\* ParseContext.deeper_parse
deeper_parse(recurse) == IF recurse = -1 THEN -1 ELSE recurse - 1

\* What g._match(segments) may return.  The grammar is any grammar: it matches
\* a prefix of the segments (none, some or all), as they are or wrapped in a
\* new segment, and leaves the rest unmatched; a broken grammar may also drop
\* the last segment, repeat the first unmatched one or swap the first two.
GrammarResults(cls, segs) ==
    LET n == Len(segs)
        Shapes(prefix) ==
            IF prefix = <<>> THEN {<<>>}
            ELSE {prefix} \cup {<<BaseSegment(c, prefix)>> : c \in Produces(cls)}
        honest == UNION {{MatchResult(mm, SubSeq(segs, k + 1, n)) :
                            mm \in Shapes(SubSeq(segs, 1, k))} : k \in 0..n}
        dropped == {MatchResult(SubSeq(segs, 1, k), SubSeq(segs, k + 1, n - 1)) : k \in 0..(n - 1)}
        repeated == {MatchResult(SubSeq(segs, 1, k), <<segs[k + 1]>> \o SubSeq(segs, k + 1, n)) :
                        k \in 0..(n - 1)}
        swapped == IF n < 2 THEN {}
                   ELSE {MatchResult(<<segs[2], segs[1]>> \o SubSeq(segs, 3, k), SubSeq(segs, k + 1, n)) :
                            k \in 2..n}
    IN  honest \cup dropped \cup repeated \cup swapped

\* A parse() call in progress: the segment it runs on (its path from the root),
\* where it stands, expand()'s loop index, parse_context.recurse, and the raw
\* text of its segments when it was called.
\* mutant of ParsedSegments: an incomplete match keeps the matched segments only
ParsedSegments_MatchedOnly(m, segs) ==
    IF has_match(m) THEN m.matched ELSE <<UnparsableSegment(segs)>>

\* self.segments after the Match step of parse (lines 375-397)
ParsedSegments(m, segs) ==
    IF has_match(m)
    THEN IF is_complete(m) THEN m.matched
         ELSE m.matched \o <<UnparsableSegment(m.unmatched)>>
    ELSE <<UnparsableSegment(segs)>>

Frame(path, phase, i, recurse, raw0) ==
    [path |-> path, phase |-> phase, i |-> i, recurse |-> recurse, raw0 |-> raw0]

Top == stack[Len(stack)]

\* the stack after the innermost parse() returned self: expand() goes on to
\* the next child
Returned(stk) ==
    LET rest == SubSeq(stk, 1, Len(stk) - 1)
    IN  IF rest = <<>> THEN rest
        ELSE [rest EXCEPT ![Len(rest)].i = @ + 1]

NoMatchYet == [path |-> <<>>, matched |-> <<>>, unmatched |-> <<>>, before |-> <<>>, called |-> FALSE]

\* the children a segment can have before it is parsed: tokens, and segments
\* the match grammar of its parent has already built
RECURSIVE ChildSeqs(_, _)
ChildSeqs(n, pos) ==
    IF n = 0 THEN {<<>>}
    ELSE {<<c>> \o rest :
            c \in {RawSegment("a", pos), RawSegment(" ", pos),
                   BaseSegment("Clause", <<RawSegment("a", pos)>>),
                   BaseSegment("Plain", <<RawSegment("a", pos)>>)},
            rest \in ChildSeqs(n - 1, pos + 1)}

-----------------------------------------------------------------------------
(* MatchResult2 (core/parser/match_result.py) *)

\* Bounds of the MatchResult2 inputs
SegLen == 3
MaxKids == 2

\* A lexer token: raw text (here the tuple of the token ids it spells) at a
\* position; tokens are one position wide.
Token(i) == [kind |-> "raw", cls |-> "Token", raw |-> <<i>>, pos |-> i, kids |-> <<>>]

\* seg_type(pos_marker=_pos): a zero-width meta segment
MetaSeg(cls, pos) == [kind |-> "meta", cls |-> cls, raw |-> <<>>, pos |-> pos, kids |-> <<>>]

RECURSIVE SegRaw(_)
\* BaseSegment.raw: the concatenated raw of the children
SegRaw(seg) ==
    IF seg.kind = "node"
    THEN ConcatAll([k \in 1..Len(seg.kids) |-> SegRaw(seg.kids[k])])
    ELSE seg.raw

\* matched_class(segments=result_segments): position of the first child
NodeSeg(cls, kids) ==
    [kind |-> "node", cls |-> cls, raw |-> <<>>, pos |-> kids[1].pos, kids |-> kids]

\* matched_class(raw=..., pos_marker=...) for a class of type "raw"
RawSeg(cls, seg) ==
    [kind |-> "raw", cls |-> cls, raw |-> SegRaw(seg), pos |-> seg.pos, kids |-> <<>>]

MRError == [ok |-> FALSE, segs |-> <<>>]

MRLen(m) == m.stop - m.start

\* the dataclass MatchResult2
MatchResult2(start, stop, cls, inserts, kids, clean) ==
    [start |-> start, stop |-> stop, cls |-> cls, inserts |-> inserts,
     kids |-> kids, clean |-> clean]

\* the keys of trigger_locs
TriggerLocs(m) ==
    {m.inserts[i][1] : i \in 1..Len(m.inserts)}
        \cup {m.kids[i].start : i \in 1..Len(m.kids)}

\* position of an inserted meta: start of the next segment, else end of the last
InsertPos(segs, idx) ==
    IF idx < Len(segs) THEN segs[idx + 1].pos
    ELSE IF idx - 1 < Len(segs) /\ idx >= 1 THEN segs[idx].pos + 1
    ELSE -1

InsertPosDefined(segs, idx) == idx < Len(segs) \/ (idx >= 1 /\ idx - 1 < Len(segs))

RECURSIVE Apply(_, _), ApplyLocs(_, _, _, _, _), ApplyKids(_, _, _, _)

RECURSIVE ApplyKids_KeepIdx(_, _, _, _)
\* mutant of ApplyKids: the end slice is not updated after a child is applied
ApplyKids_KeepIdx(kids, segs, maxIdx, acc) ==
    IF kids = <<>> THEN [ok |-> TRUE, segs |-> acc, maxIdx |-> maxIdx]
    ELSE LET r == Apply(Head(kids), segs)
         IN  IF ~r.ok THEN [ok |-> FALSE, segs |-> <<>>, maxIdx |-> maxIdx]
             ELSE ApplyKids_KeepIdx(Tail(kids), segs, maxIdx, acc \o r.segs)

\* the child matches triggered at one index, in the order of child_matches
ApplyKids(kids, segs, maxIdx, acc) ==
    IF kids = <<>> THEN [ok |-> TRUE, segs |-> acc, maxIdx |-> maxIdx]
    ELSE LET r == Apply(Head(kids), segs)
         IN  IF ~r.ok THEN [ok |-> FALSE, segs |-> <<>>, maxIdx |-> maxIdx]
             ELSE ApplyKids(Tail(kids), segs, Head(kids).stop, acc \o r.segs)

\* the loop over sorted(trigger_locs.keys())
ApplyLocs(m, segs, locs, maxIdx, acc) ==
    IF locs = <<>>
    THEN [ok |-> TRUE,
          segs |-> IF maxIdx < m.stop THEN acc \o PySlice(segs, maxIdx, m.stop) ELSE acc]
    ELSE LET idx == Head(locs)
             ins == SelectSeq(m.inserts, LAMBDA i : i[1] = idx)
             kids == SelectSeq(m.kids, LAMBDA k : k.start = idx)
             \* untouched segments passed on the way
             acc1 == IF idx > maxIdx THEN acc \o PySlice(segs, maxIdx, idx) ELSE acc
             max1 == IF idx > maxIdx THEN idx ELSE maxIdx
             \* inserts were added to the trigger list first
             metas == [i \in 1..Len(ins) |-> MetaSeg(ins[i][2], InsertPos(segs, idx))]
             r == ApplyKids(kids, segs, max1, acc1 \o metas)
         IN  IF idx < maxIdx THEN MRError                     \* SKIP AHEAD ERROR
             ELSE IF ins # <<>> /\ ~InsertPosDefined(segs, idx) THEN MRError
             ELSE IF ~r.ok THEN MRError
             ELSE ApplyLocs(m, segs, Tail(locs), r.maxIdx, r.segs)

\* MatchResult2.apply
Apply(m, segs) ==
    IF MRLen(m) = 0 THEN MRError                   \* assert slice_length(...)
    ELSE IF Len(segs) < m.stop THEN MRError        \* assert len(segments) >= stop
    ELSE LET r == ApplyLocs(m, segs, SortedSeq(TriggerLocs(m)), m.start, <<>>)
         IN  IF ~r.ok THEN MRError
             ELSE IF m.cls = "None" THEN r
             ELSE IF m.cls = "Raw"
                  THEN IF Len(r.segs) # 1 THEN MRError       \* assert len == 1
                       ELSE [ok |-> TRUE, segs |-> <<RawSeg("Raw", r.segs[1])>>]
             ELSE [ok |-> TRUE, segs |-> <<NodeSeg(m.cls, r.segs)>>]

RECURSIVE Flatten(_)
\* the leaf segments of a tuple of segments, in order
Flatten(segs) ==
    IF segs = <<>> THEN <<>>
    ELSE (IF Head(segs).kind = "node" THEN Flatten(Head(segs).kids) ELSE <<Head(segs)>>)
         \o Flatten(Tail(segs))

\* a leaf as the lexer identifies it: its raw text and its position
LeafIds(leaves) == [i \in 1..Len(leaves) |-> <<leaves[i].raw, leaves[i].pos>>]

\* the leaves of a result without the zero-width metas apply() created
NonMetaLeaves(segs) == LeafIds(SelectSeq(Flatten(segs), LAMBDA s : s.kind # "meta"))

\* ---- the inputs of apply()

Slices(a, b) == {<<s, e>> : s \in a..b, e \in a..b} \cap {p \in (a..b) \X (a..b) : p[1] <= p[2]}

\* insert_segments: none, or one Indent at any index of the root tuple
InsertOpts == {<<>>} \cup {<< <<i, "Indent">> >> : i \in 0..SegLen}

\* child matches carry a class (append() only nests matches that have one) and
\* are not empty (apply() of an empty match fails its first assertion)
KidClasses == {"Node", "Raw"}

KidMatch(slice, cls, ins) == MatchResult2(slice[1], slice[2], cls, ins, <<>>, TRUE)

Overlap(s1, s2) ==
    (IF s1[1] > s2[1] THEN s1[1] ELSE s2[1]) < (IF s1[2] < s2[2] THEN s1[2] ELSE s2[2])

NoOverlap(slices) ==
    \A i, j \in 1..Len(slices) : i # j => ~Overlap(slices[i], slices[j])

RootSegments == [i \in 1..SegLen |-> Token(i - 1)]

\* Every MatchResult2 of non-zero length over the root tuple whose child
\* matches (at most MaxKids of them) lie inside its slice and do not overlap.
InitMR ==
    /\ IdleOthersMR
    /\ segments = RootSegments
    /\ \E p \in {q \in Slices(0, SegLen) : q[1] < q[2]} :
       \E c \in {"None", "Node", "Raw"}, ins \in InsertOpts, n \in 0..MaxKids :
       \E sl \in [1..n -> {q \in Slices(p[1], p[2]) : q[1] < q[2]}] :
          /\ NoOverlap(sl)
          /\ \E deco \in [1..n -> KidClasses \X InsertOpts] :
                match = MatchResult2(p[1], p[2], c, ins,
                            [i \in 1..n |-> KidMatch(sl[i], deco[i][1], deco[i][2])], TRUE)
    /\ applied = MRError
    /\ mrpc = "new"

ApplyMatch ==
    /\ mrpc = "new"
    /\ applied' = Apply(match, segments)
    /\ mrpc' = "applied"
    /\ UNCHANGED <<segments, match>>
    /\ UNCHANGED OthersThanMR

NextMR == ApplyMatch

SpecMR == InitMR /\ [][NextMR]_vars

-----------------------------------------------------------------------------
(* The parse driver as a state machine *)

InitParse ==
    /\ IdleOthersParse
    /\ \E n \in 1..MaxChildren : \E segs \in ChildSeqs(n, 0) :
          /\ tree = BaseSegment("Statement", segs)
          /\ tree0 = tree
    /\ \E r \in {-1, 1, 2} : stack = <<Frame(<<>>, "parse", 0, r, SegRawP(tree))>>
    /\ lastm = NoMatchYet
    /\ perr = "none"

\* BaseSegment.parse up to the end of the Match step (lines 313-400)
ParseMatch ==
    /\ perr = "none" /\ stack # <<>> /\ Top.phase = "parse"
    /\ LET self == GetAt(tree, Top.path)
           segs == self.kids
       IN  IF segs = <<>>
           THEN \* nothing to parse: return self
                /\ stack' = Returned(stack)
                /\ UNCHANGED <<tree, lastm, perr>>
           ELSE IF ~_parse_grammar(self.cls)
           THEN \* no parse grammar: straight to expansion
                /\ stack' = [stack EXCEPT ![Len(stack)].phase = "recurse"]
                /\ UNCHANGED <<tree, lastm, perr>>
           ELSE IF ~is_code(segs[1]) \/ ~is_code(segs[Len(segs)])
           THEN /\ perr' = "ValueError"
                /\ UNCHANGED <<tree, lastm, stack>>
           ELSE \E m \in GrammarResults(self.cls, segs) :
                /\ lastm' = [path |-> Top.path, matched |-> m.matched,
                             unmatched |-> m.unmatched, before |-> segs, called |-> TRUE]
                /\ IF ~check_still_complete(segs, m.matched, m.unmatched)
                   THEN /\ perr' = "RuntimeError"
                        /\ UNCHANGED <<tree, stack>>
                   ELSE LET newsegs == ParsedSegments(m, segs)
                            \* UnparsableSegment.__init__ validates its segments
                            built == \/ is_complete(m)
                                     \/ validate_segments(IF has_match(m) THEN m.unmatched ELSE segs)
                        IN  IF ~built
                            THEN /\ perr' = "TypeError"
                                 /\ UNCHANGED <<tree, stack>>
                            ELSE /\ tree' = SetKidsAt(tree, Top.path, newsegs)
                                 /\ IF validate_segments(newsegs)
                                    THEN /\ stack' = [stack EXCEPT ![Len(stack)].phase = "recurse"]
                                         /\ perr' = perr
                                    ELSE /\ perr' = "TypeError"
                                         /\ stack' = stack
    /\ tree0' = tree0
    /\ UNCHANGED OthersThanParse

\* BaseSegment.parse from the recursion check on (lines 414-421)
ParseRecurse ==
    /\ perr = "none" /\ stack # <<>> /\ Top.phase = "recurse"
    /\ IF may_recurse(Top.recurse)
       THEN \* with parse_context.deeper_parse() as ctx: self.expand(self.segments, ctx)
            /\ stack' = [stack EXCEPT ![Len(stack)] =
                            Frame(Top.path, "expand", 1, deeper_parse(Top.recurse), Top.raw0)]
            /\ perr' = perr
       ELSE IF validate_segments(GetAt(tree, Top.path).kids)
            THEN /\ stack' = Returned(stack)
                 /\ perr' = perr
            ELSE /\ perr' = "TypeError"
                 /\ stack' = stack
    /\ UNCHANGED <<tree, tree0, lastm>>
    /\ UNCHANGED OthersThanParse

\* BaseSegment.expand: one turn of the loop over the child segments
ExpandChild ==
    /\ perr = "none" /\ stack # <<>> /\ Top.phase = "expand"
    /\ Top.i <= Len(GetAt(tree, Top.path).kids)
    /\ LET stmt == GetAt(tree, Top.path).kids[Top.i]
       IN  IF ~is_expandable(stmt)
           THEN \* skipped: segs += (stmt,)
                stack' = [stack EXCEPT ![Len(stack)].i = @ + 1]
           ELSE \* res = stmt.parse(parse_context=parse_context)
                stack' = Append(stack, Frame(Top.path \o <<Top.i>>, "parse", 0, Top.recurse,
                                             SegRawP(stmt)))
    /\ UNCHANGED <<tree, tree0, lastm, perr>>
    /\ UNCHANGED OthersThanParse

\* BaseSegment.expand after the loop, and the rest of parse (lines 736-738, 417-421).
\* parse() returns self, so segs holds the very segments expand() was given.
ExpandDone ==
    /\ perr = "none" /\ stack # <<>> /\ Top.phase = "expand"
    /\ Top.i > Len(GetAt(tree, Top.path).kids)
    /\ LET segs == GetAt(tree, Top.path).kids
       IN  IF ~check_still_complete(segs, segs, <<>>)
           THEN /\ perr' = "RuntimeError"
                /\ stack' = stack
           ELSE IF ~validate_segments(segs)
           THEN /\ perr' = "TypeError"
                /\ stack' = stack
           ELSE /\ stack' = Returned(stack)
                /\ perr' = perr
    /\ UNCHANGED <<tree, tree0, lastm>>
    /\ UNCHANGED OthersThanParse

NextParse == ParseMatch \/ ParseRecurse \/ ExpandChild \/ ExpandDone

SpecParse == InitParse /\ [][NextParse]_vars

\* parse runs in one thread, which takes its next step whenever there is one
SpecParseLive == SpecParse /\ WF_vars(NextParse)

-----------------------------------------------------------------------------
(* Failed matches: MatchResult2.empty_at and BaseSegment.match *)

\* Bound of the index given to empty_at
MaxIdx == 3

\* MatchResult2.__bool__
MRBool(m) == m.clean /\ (MRLen(m) > 0 \/ Len(m.inserts) > 0)

\* MatchResult2.empty_at: cls(slice(idx, idx), is_clean=False)
empty_at(idx) == MatchResult2(idx, idx, "None", <<>>, <<>>, FALSE)

\* cls._match_grammar(): the match_grammar or grammar attribute, None for Plain
_match_grammar(cls) == cls \in {"Statement", "Clause"}

isinstance(seg, cls) == seg.kind = "node" /\ seg.cls = cls

\* what cls._match_grammar()._match(segments) can give back: a MatchResult
\* over a prefix of the segments (none of them, when nothing matches), or
\* something that is not a MatchResult
GrammarMatches(segs) ==
    {[ok |-> TRUE, called |-> TRUE, matched |-> SubSeq(segs, 1, k),
      unmatched |-> SubSeq(segs, k + 1, Len(segs))] : k \in 0..Len(segs)}
        \cup {[ok |-> FALSE, called |-> TRUE, matched |-> <<>>, unmatched |-> <<>>]}

GrammarNotCalled == [ok |-> FALSE, called |-> FALSE, matched |-> <<>>, unmatched |-> <<>>]

MatchReturns(m) == [kind |-> "return", matched |-> m.matched, unmatched |-> m.unmatched]

MatchRaises(exc) == [kind |-> exc, matched |-> <<>>, unmatched |-> <<>>]

MatchPending == [kind |-> "none", matched |-> <<>>, unmatched |-> <<>>]

AlreadyMatched(cls, segs) == Len(segs) >= 1 /\ isinstance(segs[1], cls)

\* mutant of SegmentMatchResult: a grammar that matches nothing gives from_empty()
SegmentMatchResult_Empty(cls, segs, m) ==
    IF AlreadyMatched(cls, segs)
    THEN MatchReturns(MatchResult(<<segs[1]>>, Tail(segs)))
    ELSE IF ~_match_grammar(cls) THEN MatchRaises("NotImplementedError")
    ELSE IF ~m.ok THEN MatchRaises("TypeError")
    ELSE IF has_match(m)
         THEN MatchReturns(MatchResult(<<BaseSegment(cls, m.matched)>>, m.unmatched))
         ELSE MatchReturns(MatchResult(<<>>, <<>>))

\* BaseSegment.match (lines 585-648), m being what the match grammar returned
SegmentMatchResult(cls, segs, m) ==
    IF Len(segs) = 1 /\ isinstance(segs[1], cls)
    THEN \* MatchResult.from_matched(segments)
         MatchReturns(MatchResult(segs, <<>>))
    ELSE IF Len(segs) > 1 /\ isinstance(segs[1], cls)
    THEN MatchReturns(MatchResult(<<segs[1]>>, Tail(segs)))
    ELSE IF ~_match_grammar(cls) THEN MatchRaises("NotImplementedError")
    ELSE IF ~m.ok THEN MatchRaises("TypeError")
    ELSE IF has_match(m)
         THEN MatchReturns(MatchResult(<<BaseSegment(cls, m.matched)>>, m.unmatched))
         ELSE \* MatchResult.from_unmatched(segments)
              MatchReturns(MatchResult(<<>>, segs))

NoEmptyYet == [made |-> FALSE, idx |-> 0, m |-> empty_at(0)]

InitMatch ==
    /\ IdleOthersMatch
    /\ mcls \in {"Statement", "Clause", "Plain"}
    /\ \E n \in 0..MaxChildren : msegs \in ChildSeqs(n, 0)
    /\ gres = GrammarNotCalled
    /\ mres = MatchPending
    /\ eres = NoEmptyYet

\* a call of cls.match(segments, parse_context)
SegmentMatch ==
    /\ mres.kind = "none"
    /\ IF ~AlreadyMatched(mcls, msegs) /\ _match_grammar(mcls)
       THEN \E m \in GrammarMatches(msegs) :
               /\ gres' = m
               /\ mres' = SegmentMatchResult(mcls, msegs, m)
       ELSE /\ gres' = gres
            /\ mres' = SegmentMatchResult(mcls, msegs, gres)
    /\ UNCHANGED <<mcls, msegs, eres>>
    /\ UNCHANGED OthersThanMatch

\* a call of MatchResult2.empty_at(idx)
EmptyAt ==
    /\ ~eres.made
    /\ \E idx \in -1..MaxIdx : eres' = [made |-> TRUE, idx |-> idx, m |-> empty_at(idx)]
    /\ UNCHANGED <<mcls, msegs, gres, mres>>
    /\ UNCHANGED OthersThanMatch

NextMatch == SegmentMatch \/ EmptyAt

SpecMatch == InitMatch /\ [][NextMatch]_vars

-----------------------------------------------------------------------------
(* The OneOf grammar: longest match wins, first wins ties *)

\* Bounds of the OneOf inputs
MaxToks == 3
MaxAlts == 3

\* token texts; " " is whitespace
OneOfTokens == {"foo", "bar", "baar", " "}

\* the matchers the alternatives are drawn from
Keyword(k) == [kind |-> "kw", a |-> k, b |-> k]

ReFoo == [kind |-> "re", a |-> "foo", b |-> "foo"]

SequenceOf(k1, k2) == [kind |-> "seq", a |-> k1, b |-> k2]

EitherOf(k1, k2) == [kind |-> "oneof", a |-> k1, b |-> k2]

Matchers ==
    {Keyword("foo"), Keyword("bar"), ReFoo, SequenceOf("foo", "baar"),
     SequenceOf("bar", "foo"), EitherOf("bar", "foo")}

RECURSIVE SkipGaps(_, _, _)
\* the number of tokens consumed once the whitespace after the first p tokens
\* is skipped, where gaps are allowed
SkipGaps(toks, p, allow_gaps) ==
    IF allow_gaps /\ p < Len(toks) /\ toks[p + 1] = " "
    THEN SkipGaps(toks, p + 1, allow_gaps)
    ELSE p

\* simple(): the literal texts a matcher can start with, {} when it has none
simple(m) ==
    CASE m.kind = "kw" -> {m.a}
      [] m.kind = "re" -> {}
      [] m.kind = "seq" -> {m.a}
      [] m.kind = "oneof" -> {m.a, m.b}

\* the number of tokens matcher m matches at the start of toks, 0 for no match
MatchLen(m, toks) ==
    IF toks = <<>> THEN 0
    ELSE CASE m.kind = "kw" -> IF toks[1] = m.a THEN 1 ELSE 0
           [] m.kind = "re" -> IF toks[1] = "foo" THEN 1 ELSE 0
           [] m.kind = "oneof" -> IF toks[1] \in {m.a, m.b} THEN 1 ELSE 0
           [] m.kind = "seq" ->
                IF toks[1] # m.a THEN 0
                ELSE LET q == SkipGaps(toks, 1, TRUE)
                     IN  IF q < Len(toks) /\ toks[q + 1] = m.b THEN q + 1 ELSE 0

\* the alternative is tried: simple() gives no literal, or the first token is one
Viable(m, toks) == simple(m) = {} \/ (toks # <<>> /\ toks[1] \in simple(m))

NoAlternative == [alt |-> 0, len |-> 0]

RECURSIVE OneOfFrom_LastWins(_, _, _, _)
\* mutant of OneOfFrom: a match as long as the best replaces it
OneOfFrom_LastWins(alts, toks, i, best) ==
    IF i > Len(alts) THEN best
    ELSE LET l == IF Viable(alts[i], toks) THEN MatchLen(alts[i], toks) ELSE 0
         IN  OneOfFrom_LastWins(alts, toks, i + 1,
                     IF l >= best.len /\ l > 0 THEN [alt |-> i, len |-> l] ELSE best)

RECURSIVE OneOfFrom(_, _, _, _)
\* OneOf.match from alternative i on: every viable alternative is tried at the
\* same start, and a match replaces the best only when it is longer
OneOfFrom(alts, toks, i, best) ==
    IF i > Len(alts) THEN best
    ELSE LET l == IF Viable(alts[i], toks) THEN MatchLen(alts[i], toks) ELSE 0
         IN  OneOfFrom(alts, toks, i + 1,
                     IF l > best.len THEN [alt |-> i, len |-> l] ELSE best)

TokenSeqs(alphabet, n) == UNION {[1..k -> alphabet] : k \in 0..n}

InitOneOf ==
    /\ IdleOthersOneOf
    /\ otoks \in TokenSeqs(OneOfTokens, MaxToks)
    /\ \E n \in 1..MaxAlts : oalts \in [1..n -> Matchers]
    /\ ores = [done |-> FALSE, alt |-> 0, len |-> 0]

\* OneOf(*oalts).match(otoks)
OneOfMatch ==
    /\ ~ores.done
    /\ LET best == OneOfFrom(oalts, otoks, 1, NoAlternative)
       IN  ores' = [done |-> TRUE, alt |-> best.alt, len |-> best.len]
    /\ UNCHANGED <<otoks, oalts>>
    /\ UNCHANGED OthersThanOneOf

NextOneOf == OneOfMatch

SpecOneOf == InitOneOf /\ [][NextOneOf]_vars

-----------------------------------------------------------------------------
(* The Delimited grammar: element (delimiter element)* *)

\* Bounds of the Delimited inputs
MaxDelimToks == 5
MaxMinDelimiters == 2

\* token texts: the element is bar, the delimiter is the dot
DelimitedTokens == {"bar", ".", " ", "foo"}

RECURSIVE DelimitedFrom(_, _, _, _)
\* the match once an element ends after p tokens and n delimiters are matched:
\* [len, delims]. A delimiter with no element after it is kept only with
\* allow_trailing, and makes the match fail without it.
DelimitedFrom(toks, cfg, p, n) ==
    LET q == SkipGaps(toks, p, cfg.allow_gaps)
    IN  IF q < Len(toks) /\ toks[q + 1] = "."
        THEN LET r == SkipGaps(toks, q + 1, cfg.allow_gaps)
             IN  IF r < Len(toks) /\ toks[r + 1] = "bar"
                 THEN DelimitedFrom(toks, cfg, r + 1, n + 1)
                 ELSE IF cfg.allow_trailing
                 THEN [len |-> IF cfg.keep_gap THEN r ELSE q + 1, delims |-> n + 1]
                 ELSE [len |-> 0, delims |-> n + 1]
        ELSE \* whitespace that runs to the end of the input belongs to the match
             [len |-> IF q = Len(toks) THEN q ELSE p, delims |-> n]

\* element (delimiter element)* from the first token on, before min_delimiters
DelimitedScan(toks, cfg) ==
    IF toks # <<>> /\ toks[1] = "bar"
    THEN DelimitedFrom(toks, cfg, 1, 0)
    ELSE [len |-> 0, delims |-> 0]

\* mutant of DelimitedMatchLen: min_delimiters is not looked at
DelimitedMatchLen_NoMinimum(toks, cfg) == DelimitedScan(toks, cfg).len

\* len(Delimited(bar, delimiter=dot, ...).match(toks))
DelimitedMatchLen(toks, cfg) ==
    LET found == DelimitedScan(toks, cfg)
    IN  IF found.delims < cfg.min_delimiters THEN 0 ELSE found.len

\* keep_gap tells the two versions of the grammar the tests cover apart: the
\* later one keeps the whitespace after a trailing delimiter in the match
InitDelimited ==
    /\ IdleOthersDelimited
    /\ dtoks \in TokenSeqs(DelimitedTokens, MaxDelimToks)
    /\ dcfg \in [min_delimiters : 0..MaxMinDelimiters, allow_gaps : BOOLEAN,
                 allow_trailing : BOOLEAN, keep_gap : BOOLEAN]
    /\ dres = [done |-> FALSE, len |-> 0, delims |-> 0]

\* Delimited(...).match(dtoks)
DelimitedMatch ==
    /\ ~dres.done
    /\ dres' = [done |-> TRUE, len |-> DelimitedMatchLen(dtoks, dcfg),
                delims |-> DelimitedScan(dtoks, dcfg).delims]
    /\ UNCHANGED <<dtoks, dcfg>>
    /\ UNCHANGED OthersThanDelimited

NextDelimited == DelimitedMatch

SpecDelimited == InitDelimited /\ [][NextDelimited]_vars

-----------------------------------------------------------------------------
(* The reindent engine (utils/reflow/reindent.py): indent points and lines *)

\* last_line_break_idx = None
NoLineBreak == -1

\* A ReflowPoint: its Indent segments (indent_val, in order), whether it holds
\* a literal newline, and the width of the whitespace that ends it (the indent
\* of the next block when there is a newline).
ReflowPoint(metas, nl, ws) ==
    [kind |-> "point", metas |-> metas, nl |-> nl, ws |-> ws,
     btype |-> "point", uuid |-> 0, srcnl |-> FALSE]

\* A ReflowBlock of one segment: its type, its block_uuid (0 for none), and
\* whether its source string differs from its raw and holds a newline.
ReflowBlock(btype, uuid, srcnl) ==
    [kind |-> "block", metas |-> <<>>, nl |-> FALSE, ws |-> 0,
     btype |-> btype, uuid |-> uuid, srcnl |-> srcnl]

\* elements[idx], idx counted from 0
El(elements, idx) == elements[idx + 1]

RECURSIVE ImpulseFrom(_, _, _, _)
ImpulseFrom(metas, i, running_sum, trough) ==
    IF i > Len(metas) THEN <<running_sum, trough>>
    ELSE LET sum == running_sum + metas[i]
         IN  ImpulseFrom(metas, i + 1, sum, IF sum < trough THEN sum ELSE trough)

\* ReflowPoint.get_indent_impulse(): the sum of the indent_val and the lowest
\* running sum, 0 at the highest
get_indent_impulse(point) == ImpulseFrom(point.metas, 1, 0, 0)

has_untemplated_newline(point) == point.nl

_IndentPoint(idx, impulse, trough, balance, last_line_break_idx, is_line_break, untaken) ==
    [idx |-> idx, indent_impulse |-> impulse, indent_trough |-> trough,
     initial_indent_balance |-> balance, last_line_break_idx |-> last_line_break_idx,
     is_line_break |-> is_line_break, untaken_indents |-> untaken]

closing_indent_balance(ip) == ip.initial_indent_balance + ip.indent_impulse

\* the truth value of last_line_break_idx: None and 0 are false
Truthy(last_line_break_idx) ==
    last_line_break_idx # NoLineBreak /\ last_line_break_idx # 0

Last(seq) == seq[Len(seq)]

\* lines 498-510: strip any untaken indents above the new balance, back to the
\* trough if the trough was lower than the impulse
StripUntaken(untaken, balance, impulse, trough) ==
    LET limit == IF trough < impulse THEN balance + impulse + trough
                 ELSE balance + impulse
        Keep(x) == x <= limit
    IN  SelectSeq(untaken, Keep)

RECURSIVE CrawlFrom(_, _, _, _, _, _)
\* the loop of _crawl_indent_points from element idx on
CrawlFrom(elements, idx, last_line_break_idx, indent_balance, untaken_indents, yielded) ==
    IF idx >= Len(elements) THEN yielded
    ELSE LET elem == El(elements, idx)
         IN  IF elem.kind # "point"
             THEN CrawlFrom(elements, idx + 1, last_line_break_idx, indent_balance,
                            untaken_indents, yielded)
             ELSE LET it == get_indent_impulse(elem)
                      indent_impulse == it[1]
                      indent_trough == it[2]
                      is_break == has_untemplated_newline(elem) /\ idx # last_line_break_idx
                      meaningful ==
                          \/ indent_impulse # 0
                          \/ indent_trough # 0
                          \/ idx = 0
                          \/ (idx + 1 < Len(elements)
                                /\ El(elements, idx + 1).btype = "end_of_file")
                      ip == _IndentPoint(idx, indent_impulse, indent_trough, indent_balance,
                                         last_line_break_idx, is_break, untaken_indents)
                      stripped == StripUntaken(untaken_indents, indent_balance,
                                               indent_impulse, indent_trough)
                      added == IF indent_impulse > indent_trough /\ ~is_break
                               THEN [k \in 1..(indent_impulse - indent_trough) |->
                                        indent_balance + indent_trough + k]
                               ELSE <<>>
                  IN  CrawlFrom(elements, idx + 1,
                                IF is_break THEN idx ELSE last_line_break_idx,
                                indent_balance + indent_impulse,
                                stripped \o added,
                                IF is_break \/ meaningful THEN Append(yielded, ip)
                                ELSE yielded)

_crawl_indent_points(elements) == CrawlFrom(elements, 0, NoLineBreak, 0, <<>>, <<>>)

_IndentLine(balance, indent_points) ==
    [initial_indent_balance |-> balance, indent_points |-> indent_points]

from_points(indent_points) ==
    _IndentLine(IF Truthy(Last(indent_points).last_line_break_idx)
                THEN closing_indent_balance(indent_points[1])
                ELSE 0,
                indent_points)

RECURSIVE MapFrom(_, _, _, _)
MapFrom(ips, i, point_buffer, lines) ==
    IF i > Len(ips)
    THEN IF Len(point_buffer) > 1 THEN Append(lines, from_points(point_buffer)) ELSE lines
    ELSE LET buffer == Append(point_buffer, ips[i])
         IN  IF ~ips[i].is_line_break
             THEN MapFrom(ips, i + 1, buffer, lines)
             ELSE MapFrom(ips, i + 1, <<ips[i]>>, Append(lines, from_points(buffer)))

_map_line_buffers(elements) == MapFrom(_crawl_indent_points(elements), 1, <<>>, <<>>)

\* the indexes of the blocks _IndentLine.iter_blocks yields
iter_blocks(line, elements) ==
    LET last == Last(line.indent_points)
        lo == IF last.last_line_break_idx = NoLineBreak THEN 0
              ELSE line.indent_points[1].idx
    IN  {idx \in lo..(last.idx - 1) : El(elements, idx).kind = "block"}

is_all_comments(line, elements) ==
    /\ iter_blocks(line, elements) # {}
    /\ \A idx \in iter_blocks(line, elements) : El(elements, idx).btype = "comment"

is_all_templates(line, elements) ==
    /\ iter_blocks(line, elements) # {}
    /\ \A idx \in iter_blocks(line, elements) :
          El(elements, idx).btype \in {"placeholder", "template_loop"}

\* _IndentLine.desired_indent_units
desired_indent_units(line, forced_indents) ==
    LET first == line.indent_points[1]
        Keep(i) == i <= line.initial_indent_balance
                            - (first.indent_impulse - first.indent_trough)
        relevant_untaken_indents ==
            IF first.indent_trough # 0
            THEN SelectSeq(first.untaken_indents, Keep)
            ELSE first.untaken_indents
    IN  line.initial_indent_balance - Len(relevant_untaken_indents) + Len(forced_indents)

closing_balance(line) == closing_indent_balance(Last(line.indent_points))

opening_balance(line) ==
    IF Last(line.indent_points).last_line_break_idx = NoLineBreak THEN 0
    ELSE closing_indent_balance(line.indent_points[1])

-----------------------------------------------------------------------------
(* The reindent engine: revising templated and comment lines *)

\* lines 262-275: the block_uuid a template-only line is grouped under, 0 when
\* the line is not grouped
TemplateGroup(line, elements) ==
    IF is_all_templates(line, elements)
    THEN El(elements, Last(line.indent_points).idx - 1).uuid
    ELSE 0

\* grouped[uuid]: the indexes of the lines of a group
GroupLines(lines, elements, uuid) ==
    {idx \in 1..Len(lines) : TemplateGroup(lines[idx], elements) = uuid}

GroupUuids(lines, elements) ==
    {TemplateGroup(lines[idx], elements) : idx \in 1..Len(lines)} \ {0}

RECURSIVE SortGroups(_, _, _)
\* sorted(grouped.keys(), key=max(depths), reverse=True): deepest first, groups
\* of equal depth in the order their first lines come
SortGroups(lines, elements, uuids) ==
    IF uuids = {} THEN <<>>
    ELSE LET depth(u) == Max({lines[idx].initial_indent_balance :
                                 idx \in GroupLines(lines, elements, u)})
             first(u) == Min(GroupLines(lines, elements, u))
             next == CHOOSE u \in uuids : \A v \in uuids \ {u} :
                        \/ depth(u) > depth(v)
                        \/ depth(u) = depth(v) /\ first(u) < first(v)
         IN  <<next>> \o SortGroups(lines, elements, uuids \ {next})

RECURSIVE StepsBackward(_, _, _)
StepsBackward(metas, i, indent_balance) ==
    IF i = 0 THEN {}
    ELSE {indent_balance - metas[i]}
            \cup StepsBackward(metas, i - 1, indent_balance - metas[i])

RECURSIVE StepsForward(_, _, _)
StepsForward(metas, i, indent_balance) ==
    IF i > Len(metas) THEN {}
    ELSE {indent_balance + metas[i]}
            \cup StepsForward(metas, i + 1, indent_balance + metas[i])

\* lines 303-321: the balances a line can take through its adjacent points
Steps(line, elements) ==
    LET pre == El(elements, line.indent_points[1].idx).metas
        post == El(elements, Last(line.indent_points).idx).metas
    IN  {line.initial_indent_balance}
            \cup StepsBackward(pre, Len(pre), line.initial_indent_balance)
            \cup StepsForward(post, 1, line.initial_indent_balance)

\* lines 327-333: the lines between the first and last of the group, not in it
IntermediateLines(group_lines) ==
    {idx \in (Min(group_lines) + 1)..(Max(group_lines) - 1) : idx \notin group_lines}

SetBalance(line, balance) == [line EXCEPT !.initial_indent_balance = balance]

\* mutant of ReviseCase2: the smallest shared balance is taken
ReviseCase2_Smallest(lines, group_lines, overlap) ==
    [idx \in 1..Len(lines) |->
        IF idx \in group_lines THEN SetBalance(lines[idx], Min(overlap)) ELSE lines[idx]]

\* lines 354-360 and 375-377: case 2
ReviseCase2(lines, group_lines, overlap) ==
    [idx \in 1..Len(lines) |->
        IF idx \in group_lines THEN SetBalance(lines[idx], Max(overlap)) ELSE lines[idx]]

\* mutant of ReviseCase3: the lines between are left as they are
ReviseCase3_GroupOnly(lines, group_lines) ==
    LET best_indent == Min({lines[idx].initial_indent_balance : idx \in group_lines})
    IN  [idx \in 1..Len(lines) |->
            IF idx \in group_lines THEN SetBalance(lines[idx], best_indent) ELSE lines[idx]]

\* lines 362-377: case 3
ReviseCase3(lines, group_lines) ==
    LET best_indent == Min({lines[idx].initial_indent_balance : idx \in group_lines})
    IN  [idx \in 1..Len(lines) |->
            IF idx \in group_lines THEN SetBalance(lines[idx], best_indent)
            ELSE IF idx \in IntermediateLines(group_lines)
            THEN SetBalance(lines[idx], lines[idx].initial_indent_balance - 1)
            ELSE lines[idx]]

\* lines 338-351: the shared options not above the limit
RevisionOverlap(lines, elements, group_lines) ==
    LET limit_indent == Min({lines[idx].initial_indent_balance - 1 :
                                idx \in IntermediateLines(group_lines)})
        first == Min(group_lines)
    IN  {i \in Steps(lines[first], elements) :
            /\ \A idx \in group_lines : i \in Steps(lines[idx], elements)
            /\ i <= limit_indent}

\* one turn of the loop over sorted_group_indices (lines 283-377):
\* min() of no intermediate line raises ValueError
ReviseGroup(lines, elements, group_lines) ==
    IF Cardinality({lines[idx].initial_indent_balance : idx \in group_lines}) = 1
    THEN [lines |-> lines, err |-> "none", case |-> 1]
    ELSE IF IntermediateLines(group_lines) = {}
    THEN [lines |-> lines, err |-> "ValueError", case |-> 0]
    ELSE IF RevisionOverlap(lines, elements, group_lines) # {}
    THEN [lines |-> ReviseCase2(lines, group_lines, RevisionOverlap(lines, elements, group_lines)),
          err |-> "none", case |-> 2]
    ELSE [lines |-> ReviseCase3(lines, group_lines), err |-> "none", case |-> 3]

RECURSIVE ReviseGroups(_, _, _, _)
ReviseGroups(lines, elements, groups, i) ==
    IF i > Len(groups) THEN [lines |-> lines, err |-> "none"]
    ELSE LET r == ReviseGroup(lines, elements, groups[i])
         IN  IF r.err # "none" THEN [lines |-> lines, err |-> r.err]
             ELSE ReviseGroups(r.lines, elements, groups, i + 1)

\* lines 383-393: lines whose first segment is templated over several source
\* lines are removed
KeptLines(lines, elements) ==
    LET Keep(line) == ~El(elements, line.indent_points[1].idx + 1).srcnl
    IN  SelectSeq(lines, Keep)

\* the groups in the order they are evaluated, each the set of its lines
SortedGroups(lines, elements) ==
    LET uuids == SortGroups(lines, elements, GroupUuids(lines, elements))
    IN  [k \in 1..Len(uuids) |-> GroupLines(lines, elements, uuids[k])]

_revise_templated_lines(lines, elements) ==
    LET r == ReviseGroups(lines, elements, SortedGroups(lines, elements), 1)
    IN  IF r.err # "none" THEN r
        ELSE [lines |-> KeptLines(r.lines, elements), err |-> "none"]

\* mutant of _revise_comment_lines: no line is anchored
_revise_comment_lines_Unrevised(lines, elements) == lines

RECURSIVE CommentsFrom(_, _, _, _)
CommentsFrom(lines, elements, idx, comment_line_buffer) ==
    LET Anchored(balance) ==
            [i \in 1..Len(lines) |->
                IF i \in comment_line_buffer THEN SetBalance(lines[i], balance)
                ELSE lines[i]]
    IN  IF idx > Len(lines) THEN Anchored(0)
        ELSE IF is_all_comments(lines[idx], elements)
        THEN CommentsFrom(lines, elements, idx + 1, comment_line_buffer \cup {idx})
        ELSE CommentsFrom(Anchored(lines[idx].initial_indent_balance), elements,
                          idx + 1, {})

_revise_comment_lines(lines, elements) == CommentsFrom(lines, elements, 1, {})

-----------------------------------------------------------------------------
(* The reindent engine: linting the lines *)

\* Bounds of the reflow sequences
MaxBlocks == 3
MaxWs == 1

\* len(single_indent)
IndentLen == 1

\* units * single_indent, the empty string for a negative count
IndentString(units) == IF units > 0 THEN units * IndentLen ELSE 0

\* ReflowPoint.indent_to: the point with a newline and the desired indent, and
\* the results (none when the point has that indent already)
indent_to(point, idx, desired_indent) ==
    IF point.nl /\ point.ws = desired_indent
    THEN [results |-> <<>>, point |-> point]
    ELSE [results |-> <<[idx |-> idx, indent |-> desired_indent]>>,
          point |-> [point EXCEPT !.nl = TRUE, !.ws = desired_indent]]

SetEl(elements, idx, point) == [elements EXCEPT ![idx + 1] = point]

\* a point of no segments, as ReflowPoint(()) is
NoSegments(point) == point.metas = <<>> /\ ~point.nl /\ point.ws = 0

\* the indent the line has; over a first point of no segments the loop of
\* lines 565-567 leaves indent_seg None, and line 569 raises AttributeError
_deduce_line_current_indent(elements, last_indent_point) ==
    IF Truthy(last_indent_point.last_line_break_idx)
    THEN [indent |-> El(elements, last_indent_point.last_line_break_idx).ws,
          err |-> "none"]
    ELSE IF El(elements, 0).kind = "point"
    THEN IF NoSegments(El(elements, 0))
         THEN [indent |-> 0, err |-> "AttributeError"]
         ELSE [indent |-> El(elements, 0).ws, err |-> "none"]
    ELSE [indent |-> 0, err |-> "none"]

\* the lint state: elem_buffer, forced_indents, the results, an exception
LintState(elems, forced, results, err) ==
    [elems |-> elems, forced |-> forced, results |-> results, err |-> err]

_lint_line_starting_indent(elements, indent_line, forced_indents) ==
    LET first == indent_line.indent_points[1]
        current == _deduce_line_current_indent(elements, Last(indent_line.indent_points))
        desired_starting_indent == IndentString(desired_indent_units(indent_line, forced_indents))
        initial_point == El(elements, first.idx)
    IN  IF current.err # "none"
        THEN [elems |-> elements, results |-> <<>>, err |-> current.err]
        ELSE IF current.indent = desired_starting_indent
        THEN [elems |-> elements, results |-> <<>>, err |-> "none"]
        ELSE IF first.idx = 0 /\ ~first.is_line_break
        THEN [elems |-> SetEl(elements, 0, ReflowPoint(<<>>, FALSE, 0)),
              results |-> <<[idx |-> 0, indent |-> 0]>>, err |-> "none"]
        ELSE LET r == indent_to(initial_point, first.idx, desired_starting_indent)
             IN  [elems |-> SetEl(elements, first.idx, r.point), results |-> r.results,
                  err |-> "none"]

\* the first point of the line that closes at the balance, 0 when there is none
RECURSIVE FirstClosingAt(_, _, _)
FirstClosingAt(indent_points, i, balance) ==
    IF i > Len(indent_points) THEN 0
    ELSE IF closing_indent_balance(indent_points[i]) = balance THEN i
    ELSE FirstClosingAt(indent_points, i + 1, balance)

NoPositive(elements) ==
    [elems |-> elements, results |-> <<>>, new_indents |-> <<>>, err |-> "none"]

_lint_line_untaken_positive_indents(elements, indent_line) ==
    LET starting_balance == opening_balance(indent_line)
        last == Last(indent_line.indent_points)
        closing_trough ==
            IF last.indent_trough # 0
            THEN last.initial_indent_balance + last.indent_trough
            ELSE last.initial_indent_balance + last.indent_impulse
        InSeq(x, seq) == \E k \in 1..Len(seq) : seq[k] = x
        at == FirstClosingAt(indent_line.indent_points, 1, closing_trough)
    IN  IF closing_balance(indent_line) <= starting_balance THEN NoPositive(elements)
        ELSE IF closing_trough <= starting_balance THEN NoPositive(elements)
        ELSE IF ~InSeq(closing_trough, last.untaken_indents) THEN NoPositive(elements)
        ELSE IF at = 0
        THEN [elems |-> elements, results |-> <<>>, new_indents |-> <<>>,
              err |-> "NotImplementedError"]
        ELSE LET ip == indent_line.indent_points[at]
                 desired_indent ==
                     IndentString(closing_indent_balance(ip) - Len(ip.untaken_indents))
                 r == indent_to(El(elements, ip.idx), ip.idx, desired_indent)
             IN  [elems |-> SetEl(elements, ip.idx, r.point), results |-> r.results,
                  new_indents |-> <<closing_trough>>, err |-> "none"]

\* lines 732-775: no line break before a comment, a statement terminator or a
\* block placeholder
\* only a comment keeps the point before it on its line
KeepsItsLine_CommentsOnly(elements, idx) ==
    /\ idx + 1 < Len(elements)
    /\ El(elements, idx + 1).btype = "comment"

KeepsItsLine(elements, idx) ==
    /\ idx + 1 < Len(elements)
    /\ \/ El(elements, idx + 1).btype \in {"comment", "statement_terminator"}
       \/ El(elements, idx + 1).btype = "placeholder" /\ El(elements, idx + 1).uuid # 0

RECURSIVE NegativeFrom(_, _, _, _, _)
\* the loop of _lint_line_untaken_negative_indents over indent_points[:-1]
NegativeFrom(elements, indent_points, i, forced_indents, results) ==
    IF i >= Len(indent_points) THEN [elems |-> elements, results |-> results]
    ELSE LET ip == indent_points[i]
             InSeq(x, seq) == \E k \in 1..Len(seq) : seq[k] = x
             untaken == /\ InSeq(ip.initial_indent_balance, ip.untaken_indents)
                        /\ ~InSeq(ip.initial_indent_balance, forced_indents)
         IN  IF \/ ip.is_line_break \/ ip.indent_impulse >= 0
                \/ untaken
                \/ KeepsItsLine(elements, ip.idx)
             THEN NegativeFrom(elements, indent_points, i + 1, forced_indents, results)
             ELSE LET desired_indent ==
                          IndentString(closing_indent_balance(ip) - Len(ip.untaken_indents)
                                        + Len(forced_indents))
                      r == indent_to(El(elements, ip.idx), ip.idx, desired_indent)
                  IN  NegativeFrom(SetEl(elements, ip.idx, r.point), indent_points, i + 1,
                                   forced_indents, results \o r.results)

_lint_line_untaken_negative_indents(elements, indent_line, forced_indents) ==
    IF closing_balance(indent_line) >= opening_balance(indent_line)
    THEN [elems |-> elements, results |-> <<>>]
    ELSE NegativeFrom(elements, indent_line.indent_points, 1, forced_indents, <<>>)

\* mutant of PruneForced: the forced indents are compared with the balance
\* the line opens at
PruneForced_Opening(forced_indents, indent_line) ==
    LET Keep(i) == i <= opening_balance(indent_line)
    IN  SelectSeq(forced_indents, Keep)

\* lines 869-874: forced indents above the closing balance are removed
PruneForced(forced_indents, indent_line) ==
    LET Keep(i) == i <= closing_balance(indent_line)
    IN  SelectSeq(forced_indents, Keep)

_lint_line_buffer_indents(st, indent_line) ==
    LET start == _lint_line_starting_indent(st.elems, indent_line, st.forced)
        pos == _lint_line_untaken_positive_indents(start.elems, indent_line)
        neg == _lint_line_untaken_negative_indents(pos.elems, indent_line, st.forced)
    IN  IF start.err # "none"
        THEN LintState(st.elems, st.forced, st.results, start.err)
        ELSE IF pos.err # "none"
        THEN LintState(start.elems, st.forced, st.results \o start.results, pos.err)
        ELSE IF pos.results # <<>>
        THEN LintState(pos.elems, st.forced \o pos.new_indents,
                       st.results \o start.results \o pos.results, "none")
        ELSE LintState(neg.elems, PruneForced(st.forced, indent_line),
                       st.results \o start.results \o neg.results, "none")

-----------------------------------------------------------------------------
(* The reindent engine: lint_indent_points, called on a reflow sequence and *)
(* then on the sequence it returned                                         *)

\* Bounds of the points
MaxMetas == 2

\* the Indent segments a point can hold
PointMetas == {<<>>} \cup UNION {[1..k -> {1, -1}] : k \in 1..MaxMetas}

RECURSIVE BalancedFrom(_, _, _)
\* the indent balance never drops below zero and ends at zero
BalancedFrom(metas, i, balance) ==
    IF i > Len(metas) THEN balance = 0
    ELSE /\ balance + get_indent_impulse(ReflowPoint(metas[i], FALSE, 0))[2] >= 0
         /\ BalancedFrom(metas, i + 1,
                         balance + get_indent_impulse(ReflowPoint(metas[i], FALSE, 0))[1])

\* the blocks of the sequences: code, comments, and the placeholders of a
\* template block
Blocks ==
    {ReflowBlock("code", 0, FALSE), ReflowBlock("comment", 0, FALSE),
     ReflowBlock("placeholder", 1, FALSE)}

\* what can come before the first block: nothing, or whitespace and newlines
InitialPoints ==
    {<<>>} \cup ({<<ReflowPoint(<<>>, nl, ws)>> : nl \in BOOLEAN, ws \in 0..MaxWs}
                    \ {<<ReflowPoint(<<>>, FALSE, 0)>>})

\* blocks and points in turn, closed by the end of file
Elements(initial, blocks, metas, nls, wss) ==
    initial
        \o [k \in 1..(2 * Len(blocks)) |->
               IF k % 2 = 1 THEN blocks[(k + 1) \div 2]
               ELSE ReflowPoint(metas[k \div 2], nls[k \div 2], wss[k \div 2])]
        \o <<ReflowBlock("end_of_file", 0, FALSE)>>

\* elements is a sequence of at most MaxBlocks blocks before the end of file
InputElements ==
    \E n \in 1..MaxBlocks :
      \E metas \in [1..n -> PointMetas] :
        /\ BalancedFrom(metas, 1, 0)
        /\ \E nls \in [1..n -> BOOLEAN] :
             \E wss \in [1..n -> 0..MaxWs] :
               /\ \A i \in 1..n : ~nls[i] => wss[i] = 0
               /\ \E blocks \in [1..n -> Blocks] :
                    \E initial \in InitialPoints :
                      relems = Elements(initial, blocks, metas, nls, wss)

InitReindent ==
    /\ IdleOthersReindent
    /\ InputElements
    /\ rpc = "start"
    /\ rpass = 1
    /\ rlines = <<>>
    /\ rline = 0
    /\ rbuf = <<>>
    /\ rforced = <<>>
    /\ rresults = <<>>
    /\ rerr = "none"
    /\ rout1 = <<>>
    /\ rdes = <<>>
    /\ rgroups = <<>>
    /\ rgroup = 0
    /\ rrev = <<>>

\* lint_indent_points line 905, and the grouping of _revise_templated_lines
MapLineBuffers ==
    /\ rpc = "start"
    /\ rlines' = _map_line_buffers(relems)
    /\ rgroups' = SortedGroups(_map_line_buffers(relems), relems)
    /\ rgroup' = 1
    /\ rpc' = "revise"
    /\ UNCHANGED <<relems, rpass, rline, rbuf, rforced, rresults, rerr, rout1, rdes, rrev>>
    /\ UNCHANGED OthersThanReindent

\* one turn of the loop of _revise_templated_lines over the groups
ReviseTemplatedGroup ==
    /\ rpc = "revise"
    /\ rgroup <= Len(rgroups)
    /\ LET r == ReviseGroup(rlines, relems, rgroups[rgroup])
       IN  /\ rrev' = [lines |-> rlines, group |-> rgroups[rgroup], case |-> r.case]
           /\ rlines' = r.lines
           /\ IF r.err = "none"
              THEN rgroup' = rgroup + 1 /\ UNCHANGED <<rpc, rerr>>
              ELSE rpc' = "raised" /\ rerr' = r.err /\ UNCHANGED rgroup
    /\ UNCHANGED <<relems, rpass, rline, rbuf, rforced, rresults, rout1, rdes, rgroups>>
    /\ UNCHANGED OthersThanReindent

\* the end of _revise_templated_lines, _revise_comment_lines, and
\* lint_indent_points lines 929-933
ReviseComments ==
    /\ rpc = "revise"
    /\ rgroup > Len(rgroups)
    /\ rlines' = _revise_comment_lines(KeptLines(rlines, relems), relems)
    /\ rline' = 1
    /\ rbuf' = relems
    /\ rforced' = <<>>
    /\ rresults' = <<>>
    /\ rpc' = "lint"
    /\ UNCHANGED <<relems, rpass, rerr, rout1, rdes, rgroups, rgroup, rrev>>
    /\ UNCHANGED OthersThanReindent

\* one turn of the loop of lint_indent_points over the lines
LintLine ==
    /\ rpc = "lint"
    /\ rline <= Len(rlines)
    /\ LET st == _lint_line_buffer_indents(LintState(rbuf, rforced, rresults, "none"),
                                           rlines[rline])
       IN  /\ rbuf' = st.elems
           /\ rforced' = st.forced
           /\ rresults' = st.results
           /\ rdes' = [line |-> rlines[rline], forced_indents |-> rforced,
                       units |-> desired_indent_units(rlines[rline], rforced)]
           /\ IF st.err = "none"
              THEN rline' = rline + 1 /\ UNCHANGED <<rpc, rerr>>
              ELSE rpc' = "raised" /\ rerr' = st.err /\ UNCHANGED rline
    /\ UNCHANGED <<relems, rpass, rlines, rout1, rgroups, rgroup, rrev>>
    /\ UNCHANGED OthersThanReindent

\* return elem_buffer, results
Return ==
    /\ rpc = "lint"
    /\ rline > Len(rlines)
    /\ rpc' = "returned"
    /\ UNCHANGED <<relems, rpass, rlines, rline, rbuf, rforced, rresults, rerr, rout1,
                   rdes, rgroups, rgroup, rrev>>
    /\ UNCHANGED OthersThanReindent

\* lint_indent_points is called on the elements it returned
LintAgain ==
    /\ rpc = "returned"
    /\ rpass = 1
    /\ rout1' = [elems |-> rbuf, results |-> rresults]
    /\ relems' = rbuf
    /\ rpass' = 2
    /\ rpc' = "start"
    /\ rlines' = <<>>
    /\ rline' = 0
    /\ rbuf' = <<>>
    /\ rforced' = <<>>
    /\ rresults' = <<>>
    /\ rdes' = <<>>
    /\ rgroups' = <<>>
    /\ rgroup' = 0
    /\ rrev' = <<>>
    /\ UNCHANGED rerr
    /\ UNCHANGED OthersThanReindent

NextReindent ==
    \/ MapLineBuffers
    \/ ReviseTemplatedGroup
    \/ ReviseComments
    \/ LintLine
    \/ Return
    \/ LintAgain

SpecReindent == InitReindent /\ [][NextReindent]_vars

-----------------------------------------------------------------------------
(* The reindent engine: _lint_line_untaken_negative_indents on its own, given *)
(* a sequence of elements, one of its lines and a list of forced indents      *)
MaxForced == 2

\* the blocks that may follow a point: code, a comment, a statement
\* terminator, the placeholder of a template block and the placeholder of a
\* templated expression
NegativeBlocks ==
    {ReflowBlock("code", 0, FALSE), ReflowBlock("comment", 0, FALSE),
     ReflowBlock("statement_terminator", 0, FALSE),
     ReflowBlock("placeholder", 1, FALSE), ReflowBlock("placeholder", 0, FALSE)}

\* forced_indents: balances in increasing order, as the caller appends them
ForcedIndents == {SortedSeq(S) : S \in SUBSET (1..MaxForced)}

InitNegative ==
    /\ IdleOthersNegative
    /\ \E n \in 1..MaxBlocks :
         \E metas \in [1..n -> PointMetas] :
           /\ BalancedFrom(metas, 1, 0)
           /\ \E nls \in [1..n -> BOOLEAN] :
                \E blocks \in [1..n -> NegativeBlocks] :
                  nelems = Elements(<<>>, blocks, metas, nls, [i \in 1..n |-> 0])
    /\ \E k \in 1..Len(_map_line_buffers(nelems)) : nline = _map_line_buffers(nelems)[k]
    /\ nforced \in ForcedIndents
    /\ nout = <<>>

\* the call, lines 705-794
LintNegative ==
    /\ nout = <<>>
    /\ nout' = _lint_line_untaken_negative_indents(nelems, nline, nforced)
    /\ UNCHANGED <<nelems, nline, nforced>>
    /\ UNCHANGED OthersThanNegative

NextNegative == LintNegative

SpecNegative == InitNegative /\ [][NextNegative]_vars

-----------------------------------------------------------------------------
(* Rule L003 (rules/L003.py): the indentation of a line against the lines *)
(* before it                                                              *)
MaxLines == 3
MaxIndentSize == 4
MaxIndentBalance == 1
tab_space_size == 2

\* hanging_indent = None
NoHanger == -1

\* A _LineSummary, as far as _process_current_line reads it.  type is "code",
\* "comment", "empty" (whitespace only), "start" or "end" (a template block
\* placeholder on a line by itself); end_brackets counts the closing brackets
\* the line buffer starts with.
_LineSummary(type, indent_size, anchor_indent_balance, hanging_indent, end_brackets) ==
    [type |-> type, indent_size |-> indent_size,
     anchor_indent_balance |-> anchor_indent_balance,
     hanging_indent |-> hanging_indent, end_brackets |-> end_brackets,
     is_comment_line |-> type \in {"comment", "empty"},
     is_empty_line |-> type \in {"comment", "empty"},
     templated_line_type |-> IF type \in {"start", "end"} THEN type ELSE "none"]

_Memory == [problem_lines |-> <<>>, hanging_lines |-> <<>>, comment_lines |-> <<>>]

\* k in a Python list
InList(k, list) == \E i \in 1..Len(list) : list[i] = k

\* desired_indent is the length of the indent a fix made by _coerce_indent_to
\* leaves the line with, NoHanger when the result holds no such fix;
\* compared_to is the line number k a description names, 0 for none
LintResult(memory, fixes, description) ==
    [memory |-> memory, fixes |-> fixes, description |-> description,
     desired_indent |-> NoHanger, compared_to |-> 0]

\* lines 219-231, for indent_unit "space": the length of " " * tab_space_size
\* * num, which is the empty string when num is negative
_make_indent(num) == IF num > 0 THEN tab_space_size * num ELSE 0

\* lines 355-384: the existing indent buffer is deleted and the desired indent
\* is created before the anchor, unless it is empty; the length of the indent
\* of the line after the fixes
_coerce_indent_to(desired_indent) == desired_indent

\* the line number of the last line holding code, 0 for None
_find_last_meaningful_line(res) ==
    Max({0} \cup {k \in 1..Len(res) : res[k].type = "code"})

\* a hanger only at the hanging indent of the line before
IsHanger_HangingIndentOnly(memory, res, this_line, last_line_no) ==
    /\ this_line.indent_size = res[last_line_no].hanging_indent
    /\ this_line.indent_size > 0

\* lines 491-506
IsHanger(memory, res, this_line, last_line_no) ==
    LET last_line == res[last_line_no]
    IN  /\ \/ this_line.indent_size = last_line.hanging_indent
           \/ /\ this_line.indent_size = last_line.indent_size
              /\ this_line.anchor_indent_balance = last_line.anchor_indent_balance
              /\ InList(last_line_no, memory.hanging_lines)
        /\ this_line.indent_size > 0

RECURSIVE CommentFixesFrom(_, _, _, _, _)
\* the loop of _calculate_comment_fixes over the lines before, nearest first
CommentFixesFrom(memory, res, this_line, n, fixes) ==
    IF n = 0 \/ ~InList(n, memory.comment_lines) THEN [memory |-> memory, fixes |-> fixes]
    ELSE IF this_line.indent_size # res[n].indent_size
         THEN CommentFixesFrom(
                  [memory EXCEPT !.problem_lines = Append(@, n)], res, this_line, n - 1,
                  TRUE)
         ELSE CommentFixesFrom(memory, res, this_line, n - 1, fixes)

\* lines 810-813: comment_fix or LintResult(memory=memory)
IndentDeemedOk(memory, res, this_line) ==
    LET c == CommentFixesFrom(memory, res, this_line, Len(res), FALSE)
    IN  IF c.fixes
        THEN LintResult(c.memory, TRUE, "Comment not aligned with following line.")
        ELSE LintResult(c.memory, FALSE, "")

\* a problem of this line: it is recorded and a fix is returned
Problem(memory, this_line_no, description) ==
    LintResult([memory EXCEPT !.problem_lines = Append(@, this_line_no)], TRUE, description)

RECURSIVE CompareFrom(_, _, _, _, _)
\* lines 586-819: the comparison with the lines before, nearest first
CompareFrom(memory, res, this_line, this_line_no, k) ==
    IF k = 0 THEN LintResult(memory, FALSE, "")
    ELSE LET prev_line == res[k]
             indent_diff == this_line.anchor_indent_balance - prev_line.anchor_indent_balance
             this_indent_num == this_line.indent_size \div tab_space_size
             comp_indent_num == prev_line.indent_size \div tab_space_size
         IN  IF \/ InList(k, memory.problem_lines \o memory.hanging_lines)
                \/ prev_line.is_empty_line
                \/ indent_diff < 0
             THEN CompareFrom(memory, res, this_line, this_line_no, k - 1)
             ELSE IF indent_diff = 0
             THEN IF this_line.indent_size # prev_line.indent_size
                  THEN Problem(memory, this_line_no, "Indentation not consistent with line")
                  ELSE IndentDeemedOk(memory, res, this_line)
             ELSE IF this_line.indent_size % tab_space_size # 0
             THEN Problem(memory, this_line_no, "Indentation not hanging or a multiple")
             ELSE IF comp_indent_num = this_indent_num
             THEN IF this_line.end_brackets < indent_diff
                  THEN Problem(memory, this_line_no, "Indent expected and not found")
                  ELSE IndentDeemedOk(memory, res, this_line)
             ELSE IF this_indent_num < comp_indent_num
             THEN Problem(memory, this_line_no, "Line under-indented")
             ELSE IF this_indent_num > comp_indent_num + indent_diff
             THEN [Problem(memory, this_line_no, "Line over-indented")
                      EXCEPT !.desired_indent =
                                 _coerce_indent_to(
                                     _make_indent(comp_indent_num - this_indent_num)),
                             !.compared_to = k]
             ELSE IndentDeemedOk(memory, res, this_line)

RECURSIVE TemplateBlockStart(_, _, _)
\* lines 536-548: the nearest line before that opens the block this one ends,
\* 0 when there is none
TemplateBlockStart(res, k, template_block_level) ==
    IF k = 0 THEN 0
    ELSE IF res[k].templated_line_type = "none"
         THEN TemplateBlockStart(res, k - 1, template_block_level)
         ELSE LET level == IF res[k].templated_line_type = "end"
                           THEN template_block_level - 1 ELSE template_block_level + 1
              IN  IF level # 0 THEN TemplateBlockStart(res, k - 1, level) ELSE k

\* lines 525-819, what follows the hanging indents
AfterHangers(memory, res, this_line, this_line_no) ==
    LET k == IF this_line.templated_line_type = "end"
             THEN TemplateBlockStart(res, Len(res), -1) ELSE 0
    IN  IF k # 0
        THEN IF InList(k, memory.problem_lines \o memory.hanging_lines)
             THEN LintResult(memory, FALSE, "")
             ELSE IF this_line.indent_size = res[k].indent_size
             THEN LintResult(memory, FALSE, "")
             ELSE Problem(memory, this_line_no, "Indentation not consistent with line")
        ELSE CompareFrom(memory, res, this_line, this_line_no, Len(res))

\* res is memory.line_summaries after this_line was popped from it
_process_current_line(memory, res, this_line) ==
    LET this_line_no == Len(res) + 1
        last_line_no == _find_last_meaningful_line(res)
    IN  IF this_line.is_comment_line
        THEN LintResult([memory EXCEPT !.comment_lines = Append(@, this_line_no)], FALSE, "")
        ELSE IF Len(res) > 0 /\ last_line_no # 0
        THEN IF IsHanger(memory, res, this_line, last_line_no)
             THEN LintResult([memory EXCEPT !.hanging_lines = Append(@, this_line_no)],
                             FALSE, "")
             ELSE AfterHangers(memory, res, this_line, this_line_no)
        ELSE IF Len(res) = 0 /\ this_line.indent_size > 0
        THEN LintResult(memory, TRUE, "First line has unexpected indent")
        ELSE AfterHangers(memory, res, this_line, this_line_no)

\* the lines _process_raw_stack hands over when the line ends: the buffer
\* stops at the first element after the indent, so there is no hanging indent
\* yet and at most one closing bracket
TriggeredLines ==
    {_LineSummary(type, size, balance, NoHanger, brackets) :
        type \in {"code", "comment", "start", "end"}, size \in 0..MaxIndentSize,
        balance \in 0..MaxIndentBalance, brackets \in 0..1}

\* the hanging indent of the whole line, found when _process_raw_stack goes
\* over the line again: none, or the place of code after an indent
HangingIndents(line) ==
    {NoHanger} \cup IF line.type = "code" THEN (line.indent_size + 1)..MaxIndentSize ELSE {}

InitL003 ==
    /\ IdleOthersL003
    /\ hres = <<>>
    /\ hmem = _Memory
    /\ hcall = <<>>

\* _eval at the end of a line that has a trigger: _process_raw_stack (line
\* 441) puts the summary of the line last in memory.line_summaries,
\* _process_current_line pops it and judges it.  The line is summarised
\* again, as a whole, by the _process_raw_stack of the next call.
EvalLine ==
    /\ Len(hres) < MaxLines
    /\ \E this_line \in TriggeredLines :
         /\ this_line.type # "code" => this_line.end_brackets = 0
         /\ LET result == _process_current_line(hmem, hres, this_line)
            IN  /\ hcall' = [this_line |-> this_line, res |-> hres, memory |-> hmem,
                             fixes |-> result.fixes, description |-> result.description,
                             desired_indent |-> result.desired_indent,
                             compared_to |-> result.compared_to]
                /\ hmem' = result.memory
         /\ \E hanging_indent \in HangingIndents(this_line) :
              hres' = Append(hres, [this_line EXCEPT !.hanging_indent = hanging_indent])
    /\ UNCHANGED OthersThanL003

\* _eval at the end of a line of whitespace: there is no trigger, and lines
\* 451-459 leave the summary in memory.line_summaries
EvalEmptyLine ==
    /\ Len(hres) < MaxLines
    /\ \E size \in 0..MaxIndentSize, balance \in 0..MaxIndentBalance :
         hres' = Append(hres, _LineSummary("empty", size, balance, NoHanger, 0))
    /\ UNCHANGED <<hmem, hcall>>
    /\ UNCHANGED OthersThanL003

NextL003 == EvalLine \/ EvalEmptyLine

SpecL003 == InitL003 /\ [][NextL003]_vars

-----------------------------------------------------------------------------
(* MatchResult2.append and MatchResult2.wrap: the matches as objects, so   *)
(* that a match a call was given can be told from the match it returns     *)
MaxMatches == 4
MaxStop == 2

\* the dict bound to the segment_kwargs parameter of wrap when it is
\* defined (line 218), shared by every call that passes none
DefaultKwargs == 1

\* A MatchResult2 object; child_matches and segment_kwargs hold references.
MatchObject(start, stop, matched_class, segment_kwargs, insert_segments, child_matches, is_clean) ==
    [matched_slice |-> <<start, stop>>, matched_class |-> matched_class,
     segment_kwargs |-> segment_kwargs, insert_segments |-> insert_segments,
     child_matches |-> child_matches, is_clean |-> is_clean]

\* MatchResult2.__len__
ObjectLen(m) == m.matched_slice[2] - m.matched_slice[1]

\* what a call leaves: the objects, the dicts, the reference it returns
\* (0 when it raises) and the exception
CallResult(heap, dicts, result, err) ==
    [heap |-> heap, dicts |-> dicts, result |-> result, err |-> err]

\* self is extended in place by other, and returned
append_InPlace(heap, dicts, self, other) ==
    CallResult([heap EXCEPT ![self].matched_slice = <<@[1], heap[other].matched_slice[2]>>,
                          ![self].child_matches = Append(@, other)],
             dicts, self, "none")

\* mutant of append: the two matches are not asserted to follow each other
append_Unordered(heap, dicts, self, other) ==
    LET s == heap[self]
        o == heap[other]
        Inserts(m) == IF m.matched_class # "None" THEN <<>> ELSE m.insert_segments
        Children(m, ref) == IF m.matched_class # "None" THEN <<ref>> ELSE m.child_matches
    IN  IF ObjectLen(s) = 0 /\ s.insert_segments = <<>> THEN CallResult(heap, dicts, other, "none")
        ELSE IF ObjectLen(o) = 0 /\ o.insert_segments = <<>>
        THEN CallResult(heap, dicts, self, "none")
        ELSE IF ~s.is_clean
        THEN CallResult(heap, dicts, 0, "AssertionError")
        ELSE CallResult(
                 Append(heap,
                        MatchObject(s.matched_slice[1], o.matched_slice[2], "None",
                                    Len(dicts) + 1, Inserts(s) \o Inserts(o),
                                    Children(s, self) \o Children(o, other), o.is_clean)),
                 Append(dicts, {}), Len(heap) + 1, "none")

\* lines 176-212.  The new match has no segment_kwargs given, so the
\* default_factory of the field makes it a new dict.
append(heap, dicts, self, other) ==
    LET s == heap[self]
        o == heap[other]
        Inserts(m) == IF m.matched_class # "None" THEN <<>> ELSE m.insert_segments
        Children(m, ref) == IF m.matched_class # "None" THEN <<ref>> ELSE m.child_matches
    IN  IF ObjectLen(s) = 0 /\ s.insert_segments = <<>> THEN CallResult(heap, dicts, other, "none")
        ELSE IF ObjectLen(o) = 0 /\ o.insert_segments = <<>>
        THEN CallResult(heap, dicts, self, "none")
        ELSE IF ~s.is_clean \/ ~(s.matched_slice[2] <= o.matched_slice[1])
        THEN CallResult(heap, dicts, 0, "AssertionError")
        ELSE CallResult(
                 Append(heap,
                        MatchObject(s.matched_slice[1], o.matched_slice[2], "None",
                                    Len(dicts) + 1, Inserts(s) \o Inserts(o),
                                    Children(s, self) \o Children(o, other), o.is_clean)),
                 Append(dicts, {}), Len(heap) + 1, "none")

\* lines 214-244
wrap(heap, dicts, self, outer_class, insert_segments, segment_kwargs) ==
    LET s == heap[self]
    IN  CallResult(
            Append(heap,
                   MatchObject(s.matched_slice[1], s.matched_slice[2], outer_class,
                               segment_kwargs,
                               IF s.matched_class # "None" THEN insert_segments
                               ELSE s.insert_segments \o insert_segments,
                               IF s.matched_class # "None" THEN <<self>>
                               ELSE s.child_matches,
                               s.is_clean)),
            dicts, Len(heap) + 1, "none")

\* insert_segments: nothing, or a Dedent at the end
InsertChoices == {<<>>, <<<<MaxStop, "Dedent">>>>}

\* the matches a grammar starts from: no children, a dict of their own
LeafMatches(kwargs) ==
    {MatchObject(start, stop, matched_class, kwargs, insert_segments, <<>>, is_clean) :
        start \in 0..MaxStop, stop \in 0..MaxStop,
        matched_class \in {"None", "Node"}, insert_segments \in {<<>>, <<<<0, "Indent">>>>},
        is_clean \in BOOLEAN}

InitCombine ==
    /\ IdleOthersCombine
    /\ ckw = <<{}, {}, {}>>
    /\ \E first \in LeafMatches(2), second \in LeafMatches(3) :
         /\ first.matched_slice[1] <= first.matched_slice[2]
         /\ second.matched_slice[1] <= second.matched_slice[2]
         /\ cheap = <<first, second>>
    /\ clast = <<>>

\* self.append(other) for two of the matches there are
CallAppend ==
    /\ Len(cheap) < MaxMatches
    /\ \E self \in 1..Len(cheap), other \in 1..Len(cheap) :
         LET r == append(cheap, ckw, self, other)
         IN  /\ cheap' = r.heap
             /\ ckw' = r.dicts
             /\ clast' = [op |-> "append", self |-> self, other |-> other,
                          result |-> r.result, err |-> r.err]
    /\ UNCHANGED OthersThanCombine

\* self.wrap(outer_class, insert_segments=...): segment_kwargs is left to its
\* default
CallWrap ==
    /\ Len(cheap) < MaxMatches
    /\ \E self \in 1..Len(cheap), insert_segments \in InsertChoices :
         LET r == wrap(cheap, ckw, self, "Node", insert_segments, DefaultKwargs)
         IN  /\ cheap' = r.heap
             /\ ckw' = r.dicts
             /\ clast' = [op |-> "wrap", self |-> self, other |-> 0,
                          result |-> r.result, err |-> r.err]
    /\ UNCHANGED OthersThanCombine

\* self.wrap(outer_class, segment_kwargs={...}): the caller makes the dict
CallWrapKwargs ==
    /\ Len(cheap) < MaxMatches
    /\ \E self \in 1..Len(cheap) :
         LET r == wrap(cheap, Append(ckw, {"instance_types"}), self, "Node", <<>>,
                       Len(ckw) + 1)
         IN  /\ cheap' = r.heap
             /\ ckw' = r.dicts
             /\ clast' = [op |-> "wrap", self |-> self, other |-> 0,
                          result |-> r.result, err |-> r.err]
    /\ UNCHANGED OthersThanCombine

NextCombine == CallAppend \/ CallWrap \/ CallWrapKwargs

SpecCombine == InitCombine /\ [][NextCombine]_vars

-----------------------------------------------------------------------------
(* BaseSegment.apply_fixes and BaseSegment.realign: the segments as        *)
(* objects, so that the segment a call was given can be told from the one  *)
(* it returns.  A position marker is a place in a text of one line and one *)
(* statement.                                                              *)
MaxFixes == 2
MaxItems == 2

\* A segment object: segments holds references, a raw or meta segment has
\* none and keeps its raw.
SegmentObject(cls, raw, pos_marker, segs) ==
    [cls |-> cls, raw |-> raw, pos_marker |-> pos_marker, segments |-> segs]

\* BaseSegment.is_raw
is_raw(obj) == Len(obj.segments) = 0

is_meta(obj) == obj.cls = "Indent"

RECURSIVE ObjectTree(_, _)
\* the segment a reference stands for, with its subtree
ObjectTree(heap, ref) ==
    IF is_raw(heap[ref])
    THEN [kind |-> "raw", cls |-> heap[ref].cls, raw |-> heap[ref].raw,
          pos |-> heap[ref].pos_marker, kids |-> <<>>]
    ELSE [kind |-> "node", cls |-> heap[ref].cls, raw |-> <<>>,
          pos |-> heap[ref].pos_marker,
          kids |-> [k \in 1..Len(heap[ref].segments) |->
                       ObjectTree(heap, heap[ref].segments[k])]]

ObjectRaw(heap, ref) == SegRawP(ObjectTree(heap, ref))

\* BaseSegment.__eq__: type, content and pos are the same
SegmentEq(heap, a, b) ==
    /\ heap[a].cls = heap[b].cls
    /\ ObjectRaw(heap, a) = ObjectRaw(heap, b)
    /\ heap[a].pos_marker = heap[b].pos_marker

\* what a call leaves: the objects, the reference it returns (0 when it
\* raises), the fixes it hands back and the exception
FixResult(heap, ref, fixes, err) == [heap |-> heap, ref |-> ref, fixes |-> fixes, err |-> err]

Reversed(seq) == [k \in 1..Len(seq) |-> seq[Len(seq) + 1 - k]]

\* lines 834-866: the fix the loop over fix_buff stops at for seg: pop()
\* takes the fixes from the end; 0 when none is anchored at seg
FixFor(heap, seg, fixes) ==
    Max({0} \cup {j \in 1..Len(fixes) : SegmentEq(heap, fixes[j].anchor, seg)})

RECURSIVE FixChildren_FixKept(_, _, _, _, _)
\* mutant of FixChildren: the fix that matched stays in the list
FixChildren_FixKept(heap, todo_buffer, i, fixes, seg_buffer) ==
    IF i > Len(todo_buffer) THEN [seg_buffer |-> seg_buffer, fixes |-> fixes]
    ELSE LET seg == todo_buffer[i]
             j == FixFor(heap, seg, fixes)
         IN  IF is_meta(heap[seg])
             THEN FixChildren_FixKept(heap, todo_buffer, i + 1, fixes, Append(seg_buffer, seg))
             ELSE IF j = 0
             THEN FixChildren_FixKept(heap, todo_buffer, i + 1, Reversed(fixes),
                                      Append(seg_buffer, seg))
             ELSE FixChildren_FixKept(
                      heap, todo_buffer, i + 1,
                      Reversed(SubSeq(fixes, j, Len(fixes))) \o SubSeq(fixes, 1, j - 1),
                      seg_buffer
                          \o (IF fixes[j].edit_type = "delete" THEN <<>> ELSE fixes[j].edit)
                          \o (IF fixes[j].edit_type = "create" THEN <<seg>> ELSE <<>>))

RECURSIVE FixChildren(_, _, _, _, _)
\* lines 823-868: the loop over todo_buffer
FixChildren(heap, todo_buffer, i, fixes, seg_buffer) ==
    IF i > Len(todo_buffer) THEN [seg_buffer |-> seg_buffer, fixes |-> fixes]
    ELSE LET seg == todo_buffer[i]
             j == FixFor(heap, seg, fixes)
         IN  IF is_meta(heap[seg])
             THEN FixChildren(heap, todo_buffer, i + 1, fixes, Append(seg_buffer, seg))
             ELSE IF j = 0
             THEN FixChildren(heap, todo_buffer, i + 1, Reversed(fixes),
                              Append(seg_buffer, seg))
             ELSE FixChildren(
                      heap, todo_buffer, i + 1,
                      Reversed(SubSeq(fixes, j + 1, Len(fixes))) \o SubSeq(fixes, 1, j - 1),
                      seg_buffer
                          \o (IF fixes[j].edit_type = "delete" THEN <<>> ELSE fixes[j].edit)
                          \o (IF fixes[j].edit_type = "create" THEN <<seg>> ELSE <<>>))

\* the segments of self are assigned, and self is handed on
Rebuilt_InPlace(heap, self, seg_buffer) ==
    [heap |-> [heap EXCEPT ![self].segments = seg_buffer], ref |-> self]

\* lines 876-878: r.__class__(segments=tuple(seg_buffer), pos_marker=r.pos_marker,
\* validate=False)
Rebuilt(heap, self, seg_buffer) ==
    [heap |-> Append(heap, SegmentObject(heap[self].cls, <<>>, heap[self].pos_marker,
                                         seg_buffer)),
     ref |-> Len(heap) + 1]

\* validate_segments(validate=True) passes for the segments given
ValidSegments(heap, segs) ==
    validate_segments([k \in 1..Len(segs) |-> ObjectTree(heap, segs[k])])

RECURSIVE realign(_, _)
RECURSIVE RealignFrom(_, _, _, _, _)
\* lines 909-938: the loop over todo_buffer
RealignFrom(heap, todo_buffer, i, running_pos, seg_buffer) ==
    IF i > Len(todo_buffer)
    THEN [heap |-> heap, seg_buffer |-> seg_buffer, err |-> "none"]
    ELSE LET seg == heap[todo_buffer[i]]
             fresh == Len(heap) + 1
         IN  IF is_raw(seg)
             THEN RealignFrom(
                      Append(heap, SegmentObject(seg.cls, seg.raw, running_pos, <<>>)),
                      todo_buffer, i + 1, advance_by(running_pos, seg.raw),
                      Append(seg_buffer, fresh))
             ELSE IF ~ValidSegments(heap, seg.segments)
             THEN [heap |-> heap, seg_buffer |-> seg_buffer, err |-> "TypeError"]
             ELSE LET r == realign(
                               Append(heap, SegmentObject(seg.cls, <<>>, running_pos,
                                                          seg.segments)),
                               fresh)
                  IN  IF r.err # "none"
                      THEN [heap |-> r.heap, seg_buffer |-> seg_buffer, err |-> r.err]
                      ELSE RealignFrom(r.heap, todo_buffer, i + 1,
                                       advance_by(running_pos, ObjectRaw(r.heap, r.ref)),
                                       Append(seg_buffer, r.ref))

\* lines 891-941
realign(heap, self) ==
    LET r == RealignFrom(heap, heap[self].segments, 1, heap[self].pos_marker, <<>>)
    IN  IF r.err # "none" THEN FixResult(r.heap, 0, <<>>, r.err)
        ELSE IF r.seg_buffer = <<>> THEN FixResult(r.heap, 0, <<>>, "RuntimeError")
        ELSE IF ~ValidSegments(r.heap, r.seg_buffer)
        THEN FixResult(r.heap, 0, <<>>, "TypeError")
        ELSE FixResult(
                 Append(r.heap, SegmentObject(heap[self].cls, <<>>, heap[self].pos_marker,
                                              r.seg_buffer)),
                 Len(r.heap) + 1, <<>>, "none")

RECURSIVE apply_fixes(_, _, _)
RECURSIVE FixDeeper(_, _, _, _, _)
\* lines 870-874: the fixes left go to the children, one after the other
FixDeeper(heap, seg_queue, i, fixes, seg_buffer) ==
    IF i > Len(seg_queue)
    THEN [heap |-> heap, seg_buffer |-> seg_buffer, fixes |-> fixes, err |-> "none"]
    ELSE LET r == apply_fixes(heap, seg_queue[i], fixes)
         IN  IF r.err # "none"
             THEN [heap |-> r.heap, seg_buffer |-> seg_buffer, fixes |-> fixes, err |-> r.err]
             ELSE FixDeeper(r.heap, seg_queue, i + 1, r.fixes, Append(seg_buffer, r.ref))

\* lines 808-889
apply_fixes(heap, self, fixes) ==
    IF fixes # <<>> /\ ~is_raw(heap[self])
    THEN LET here == FixChildren(heap, heap[self].segments, 1, fixes, <<>>)
             deeper == FixDeeper(heap, here.seg_buffer, 1, here.fixes, <<>>)
             r == Rebuilt(deeper.heap, self, deeper.seg_buffer)
             aligned == realign(r.heap, r.ref)
         IN  IF deeper.err # "none" THEN FixResult(deeper.heap, 0, deeper.fixes, deeper.err)
             ELSE IF deeper.seg_buffer = <<>>
             THEN FixResult(deeper.heap, 0, deeper.fixes, "RuntimeError")
             ELSE FixResult(aligned.heap, aligned.ref, deeper.fixes, aligned.err)
    ELSE FixResult(heap, self, fixes, "none")

\* the children of the segment the call is made on: a raw segment, an
\* Indent, or a Clause of raw segments
Items ==
    {<<"a">>, <<"b">>, <<"Indent">>, <<"Clause", "a">>, <<"Clause", "a", "b">>}

ItemLen(item) == IF item[1] = "Indent" THEN 0 ELSE IF item[1] = "Clause" THEN Len(item) - 1 ELSE 1

RECURSIVE Placed(_, _, _, _)
\* the objects of a sequence of items laid out from pos on, after heap; the
\* references of the items come last in refs
Placed(heap, items, pos, refs) ==
    IF items = <<>> THEN [heap |-> heap, refs |-> refs]
    ELSE LET item == Head(items)
             n == Len(heap)
             one ==
                 IF item[1] = "Indent" THEN <<SegmentObject("Indent", <<>>, pos, <<>>)>>
                 ELSE IF item[1] = "Clause"
                 THEN [k \in 1..Len(item) |->
                          IF k < Len(item)
                          THEN SegmentObject("Raw", <<item[k + 1]>>, pos + k - 1, <<>>)
                          ELSE SegmentObject("Clause", <<>>, pos,
                                             [c \in 1..(Len(item) - 1) |-> n + c])]
                 ELSE <<SegmentObject("Raw", item, pos, <<>>)>>
         IN  Placed(heap \o one, Tail(items), pos + ItemLen(item),
                    Append(refs, n + Len(one)))

\* a Statement over the items, then the segment the fixes put in: a raw
\* segment of no place yet
StatementHeap(items) ==
    LET p == Placed(<<>>, items, 0, <<>>)
    IN  p.heap \o <<SegmentObject("Statement", <<>>, 0, p.refs),
                    SegmentObject("Raw", <<"x">>, 0, <<>>)>>

\* LintFix: the segment it is anchored at, what to do, and the segments to
\* put in
LintFix(edit_type, anchor, edit) == [edit_type |-> edit_type, anchor |-> anchor, edit |-> edit]

InitFix ==
    /\ IdleOthersFix
    /\ \E n \in 1..MaxItems : \E items \in [1..n -> Items] :
         /\ fheap = StatementHeap(items)
         /\ froot = Len(fheap) - 1
         /\ \E m \in 0..MaxFixes :
              \E anchors \in [1..m -> 1..(froot - 1)] :
                \E types \in [1..m -> {"delete", "edit", "create"}] :
                  ffixes = [k \in 1..m |->
                               LintFix(types[k], anchors[k],
                                       IF types[k] = "delete" THEN <<>> ELSE <<Len(fheap)>>)]
    /\ fcall = <<>>

\* segment.apply_fixes(fixes)
CallApplyFixes ==
    /\ fcall = <<>>
    /\ LET r == apply_fixes(fheap, froot, ffixes)
       IN  /\ fheap' = r.heap
           /\ fcall' = [op |-> "apply_fixes", result |-> r.ref, fixes |-> r.fixes,
                        err |-> r.err]
    /\ UNCHANGED <<froot, ffixes>>
    /\ UNCHANGED OthersThanFix

\* segment.realign()
CallRealign ==
    /\ fcall = <<>>
    /\ LET r == realign(fheap, froot)
       IN  /\ fheap' = r.heap
           /\ fcall' = [op |-> "realign", result |-> r.ref, fixes |-> <<>>, err |-> r.err]
    /\ UNCHANGED <<froot, ffixes>>
    /\ UNCHANGED OthersThanFix

NextFix == CallApplyFixes \/ CallRealign

SpecFix == InitFix /\ [][NextFix]_vars

-----------------------------------------------------------------------------
(* The reindent engine: _crawl_indent_points as the loop it is, so that the *)
(* values it carries from one point to the next can be looked at            *)

\* Bounds of the sequences crawled
MaxCrawlBlocks == 3
MaxCrawlMetas == 3

\* the Indent segments a point of these sequences can hold
CrawlMetas == {<<>>} \cup UNION {[1..k -> {1, -1}] : k \in 1..MaxCrawlMetas}

\* elements is a sequence of at most MaxCrawlBlocks blocks, each followed by
\* a point, before the end of file; it may start with a point
InitCrawl ==
    /\ IdleOthersCrawl
    /\ \E n \in 1..MaxCrawlBlocks :
         \E metas \in [1..n -> CrawlMetas] :
           /\ BalancedFrom(metas, 1, 0)
           /\ \E nls \in [1..n -> BOOLEAN] :
                \E initial \in {<<>>, <<ReflowPoint(<<>>, TRUE, 0)>>} :
                  kelems = Elements(initial, [i \in 1..n |-> ReflowBlock("code", 0, FALSE)],
                                    metas, nls, [i \in 1..n |-> 0])
    /\ kidx = 0
    /\ kbreak = NoLineBreak
    /\ kbalance = 0
    /\ kuntaken = <<>>
    /\ kyield = <<>>
    /\ klast = <<>>

\* lines 460-518: one turn of the loop at a point
CrawlPoint ==
    /\ kidx < Len(kelems)
    /\ El(kelems, kidx).kind = "point"
    /\ LET elem == El(kelems, kidx)
           it == get_indent_impulse(elem)
           indent_impulse == it[1]
           indent_trough == it[2]
           is_break == has_untemplated_newline(elem) /\ kidx # kbreak
           meaningful ==
               \/ indent_impulse # 0
               \/ indent_trough # 0
               \/ kidx = 0
               \/ (kidx + 1 < Len(kelems) /\ El(kelems, kidx + 1).btype = "end_of_file")
           ip == _IndentPoint(kidx, indent_impulse, indent_trough, kbalance, kbreak,
                              is_break, kuntaken)
           stripped == StripUntaken(kuntaken, kbalance, indent_impulse, indent_trough)
           added == IF indent_impulse > indent_trough /\ ~is_break
                    THEN [k \in 1..(indent_impulse - indent_trough) |->
                             kbalance + indent_trough + k]
                    ELSE <<>>
       IN  /\ kyield' = IF is_break \/ meaningful THEN Append(kyield, ip) ELSE kyield
           /\ kbreak' = IF is_break THEN kidx ELSE kbreak
           /\ kuntaken' = stripped \o added
           /\ kbalance' = kbalance + indent_impulse
           /\ klast' = [idx |-> kidx, indent_balance |-> kbalance,
                        indent_impulse |-> indent_impulse, indent_trough |-> indent_trough,
                        untaken_indents |-> kuntaken, kept |-> stripped]
    /\ kidx' = kidx + 1
    /\ UNCHANGED kelems
    /\ UNCHANGED OthersThanCrawl

\* line 460: an element that is not a point is passed over
CrawlBlock ==
    /\ kidx < Len(kelems)
    /\ El(kelems, kidx).kind # "point"
    /\ kidx' = kidx + 1
    /\ UNCHANGED <<kelems, kbreak, kbalance, kuntaken, kyield, klast>>
    /\ UNCHANGED OthersThanCrawl

NextCrawl ==
    \/ CrawlPoint
    \/ CrawlBlock

SpecCrawl == InitCrawl /\ [][NextCrawl]_vars

-----------------------------------------------------------------------------
(* The reindent engine: _revise_templated_lines on sequences that hold the  *)
(* placeholders of two template blocks                                      *)

\* Bounds of the sequences revised
MaxReviseBlocks == 5
MaxReviseMetas == 1

\* the Indent segments a point of these sequences can hold
ReviseMetas == {<<>>} \cup UNION {[1..k -> {1, -1}] : k \in 1..MaxReviseMetas}

\* code, and the placeholders of the template blocks 1 and 2
ReviseBlocks ==
    {ReflowBlock("code", 0, FALSE), ReflowBlock("placeholder", 1, FALSE),
     ReflowBlock("placeholder", 2, FALSE)}

\* the tags of two template blocks are nested or follow each other: a tag of
\* one block does not stand between two tags of the other and before a
\* further tag of its own
Interleaved(blocks) ==
    \E i, j, k, l \in 1..Len(blocks) :
        /\ i < j /\ j < k /\ k < l
        /\ blocks[i].uuid # 0 /\ blocks[j].uuid # 0
        /\ blocks[i].uuid = blocks[k].uuid
        /\ blocks[j].uuid = blocks[l].uuid
        /\ blocks[i].uuid # blocks[j].uuid

InitRevise ==
    /\ IdleOthersReindent
    /\ \E n \in 1..MaxReviseBlocks :
         \E metas \in [1..n -> ReviseMetas] :
           /\ BalancedFrom(metas, 1, 0)
           /\ \E blocks \in [1..n -> ReviseBlocks] :
                /\ ~Interleaved(blocks)
                /\ \E nls \in [1..n -> BOOLEAN] :
                     relems = Elements(<<>>, blocks, metas, nls, [i \in 1..n |-> 0])
    /\ rpc = "start"
    /\ rpass = 1
    /\ rlines = <<>>
    /\ rline = 0
    /\ rbuf = <<>>
    /\ rforced = <<>>
    /\ rresults = <<>>
    /\ rerr = "none"
    /\ rout1 = <<>>
    /\ rdes = <<>>
    /\ rgroups = <<>>
    /\ rgroup = 0
    /\ rrev = <<>>

NextRevise ==
    \/ MapLineBuffers
    \/ ReviseTemplatedGroup
    \/ ReviseComments

SpecRevise == InitRevise /\ [][NextRevise]_vars

-----------------------------------------------------------------------------
(* MatchResult2.is_better_than, called on two matches                      *)

\* lines 170-174
is_better_than(self, other) ==
    IF self.is_clean /\ ~other.is_clean THEN TRUE
    ELSE ObjectLen(self) > ObjectLen(other)

InitBetter ==
    /\ IdleOthersCombine
    /\ ckw = <<{}, {}, {}>>
    /\ \E first \in LeafMatches(2), second \in LeafMatches(3) :
         /\ first.matched_slice[1] <= first.matched_slice[2]
         /\ second.matched_slice[1] <= second.matched_slice[2]
         /\ cheap = <<first, second>>
    /\ clast = <<>>

\* self.is_better_than(other) for two of the matches there are
CallIsBetterThan ==
    /\ \E self \in 1..Len(cheap), other \in 1..Len(cheap) :
         clast' = [op |-> "is_better_than", self |-> self, other |-> other,
                   result |-> is_better_than(cheap[self], cheap[other]), err |-> "none"]
    /\ UNCHANGED <<cheap, ckw>>
    /\ UNCHANGED OthersThanCombine

NextBetter == CallIsBetterThan

SpecBetter == InitBetter /\ [][NextBetter]_vars

-----------------------------------------------------------------------------
(* The reindent engine: lint_indent_points on longer sequences of code only *)

\* Bound of the sequences of code
MaxCodeBlocks == 4

\* elements is a sequence of at most MaxCodeBlocks blocks of code before the
\* end of file
InitCode ==
    /\ IdleOthersReindent
    /\ \E n \in 1..MaxCodeBlocks :
         \E metas \in [1..n -> PointMetas] :
           /\ BalancedFrom(metas, 1, 0)
           /\ \E nls \in [1..n -> BOOLEAN] :
                \E wss \in [1..n -> 0..MaxWs] :
                  /\ \A i \in 1..n : ~nls[i] => wss[i] = 0
                  /\ \E initial \in InitialPoints :
                       relems = Elements(initial, [i \in 1..n |-> ReflowBlock("code", 0, FALSE)],
                                         metas, nls, wss)
    /\ rpc = "start"
    /\ rpass = 1
    /\ rlines = <<>>
    /\ rline = 0
    /\ rbuf = <<>>
    /\ rforced = <<>>
    /\ rresults = <<>>
    /\ rerr = "none"
    /\ rout1 = <<>>
    /\ rdes = <<>>
    /\ rgroups = <<>>
    /\ rgroup = 0
    /\ rrev = <<>>

\* there is no template group to revise, and the call is made once
NextCode ==
    \/ MapLineBuffers
    \/ ReviseComments
    \/ LintLine
    \/ Return

SpecCode == InitCode /\ [][NextCode]_vars

-----------------------------------------------------------------------------
(* Config loading (core/config/cache.py): _resolve_paths_in_config.  A key *)
(* is a sequence of its parts, a string a sequence of its characters, a    *)
(* path a sequence of its components.                                      *)

\* Bound of the nesting of the config sections
MaxDepth == 2

COMMA_SEPARATED_PATH_KEYS ==
    {<<"load_macros_from", "_path">>, <<"loader_search", "_path">>}

RESOLVE_PATH_SUFFIXES == {"_path", "_dir"}

\* str.lower() on the parts of a key
Lower(key) ==
    [i \in 1..Len(key) |->
        IF key[i] = "OUTPUT" THEN "output" ELSE IF key[i] = "_DIR" THEN "_dir" ELSE key[i]]

\* key.lower().endswith(RESOLVE_PATH_SUFFIXES)
EndsWithSuffix(key) == Lower(key)[Len(key)] \in RESOLVE_PATH_SUFFIXES

StrVal(val) == [kind |-> "str", val |-> val]
DictVal(items) == [kind |-> "dict", val |-> items]

\* the config file, and os.path.dirname of it
ConfigFile == <<"proj", "/", ".sqlfluff">>
dirname(filepath) == SubSeq(filepath, 1, Len(filepath) - 2)

\* os.path.join of a directory and a relative path
join(dir, path) == dir \o <<"/">> \o path

\* lines 51-56
_resolve_path(filepath, val, exists) ==
    LET ref_path == join(dirname(filepath), val)
    IN  IF ref_path \in exists THEN ref_path ELSE val

RECURSIVE SplitFrom(_, _, _, _)
\* the entries of a string between its commas, the empty ones left out
SplitFrom(val, i, entry, entries) ==
    LET closed == IF entry = <<>> THEN entries ELSE Append(entries, entry)
    IN  IF i > Len(val) THEN closed
        ELSE IF val[i] = "," THEN SplitFrom(val, i + 1, <<>>, closed)
        ELSE SplitFrom(val, i + 1, Append(entry, val[i]), entries)

split_comma_separated_string(val) == SplitFrom(val, 1, <<>>, <<>>)

RECURSIVE JoinComma(_)
\* ",".join(paths)
JoinComma(paths) ==
    IF paths = <<>> THEN <<>>
    ELSE IF Len(paths) = 1 THEN paths[1]
    ELSE paths[1] \o <<",">> \o JoinComma(Tail(paths))

\* lines 73-84: what the name val is bound to at the end of a turn of the loop
LocalVal(key, val, filepath, exists) ==
    IF Lower(key) \in COMMA_SEPARATED_PATH_KEYS
    THEN LET paths == split_comma_separated_string(val)
         IN  JoinComma([k \in 1..Len(paths) |-> _resolve_path(filepath, paths[k], exists)])
    ELSE IF EndsWithSuffix(key) THEN _resolve_path(filepath, val, exists)
    ELSE val

RECURSIVE _resolve_paths_in_config(_, _, _)
\* lines 59-84: the dict after the call, and the exception raised.  Lines 78
\* and 84 assign to the name val of the loop; no line assigns to config[key],
\* so every value is left as it is.
_resolve_paths_in_config(config, filepath, exists) ==
    LET after(key) ==
            IF config[key].kind = "dict"
            THEN _resolve_paths_in_config(config[key].val, filepath, exists)
            ELSE [config |-> config[key].val, err |-> "none"]
        asserted(key) ==
            /\ Lower(key) \in COMMA_SEPARATED_PATH_KEYS \/ EndsWithSuffix(key)
            /\ config[key].kind # "str"
        failed == {key \in DOMAIN config : after(key).err # "none" \/ asserted(key)}
    IN  [config |-> [key \in DOMAIN config |->
                        IF config[key].kind = "dict" THEN DictVal(after(key).config)
                        ELSE config[key]],
         err |-> IF failed = {} THEN "none" ELSE "AssertionError"]

\* the keys and the values of the config files
ValueKeys ==
    {<<"library", "_path">>, <<"OUTPUT", "_DIR">>, <<"load_macros_from", "_path">>,
     <<"dialect">>}
NestedKeys == {<<"library", "_path">>, <<"load_macros_from", "_path">>}
SectionKeys == {<<"templater">>, <<"macros", "_path">>}
Strings == {<<"a">>, <<"a", ",", "b">>}

\* the dicts of string values over some of the keys
Values(keys) ==
    UNION {[present -> {StrVal(s) : s \in Strings}] : present \in SUBSET keys}

RECURSIVE Configs(_)
\* the config dicts of the given depth: string values, and sections of string
\* values under them
Configs(depth) ==
    IF depth = 1 THEN Values(NestedKeys)
    ELSE {[key \in DOMAIN values \cup DOMAIN sections |->
              IF key \in DOMAIN values THEN values[key] ELSE sections[key]] :
             values \in Values(ValueKeys),
             sections \in UNION {[present -> {DictVal(d) : d \in Configs(depth - 1)}] :
                                    present \in SUBSET SectionKeys}}

\* the paths that may exist beside the config file
Paths == {join(dirname(ConfigFile), s) : s \in {<<"a">>, <<"b">>, <<"a", ",", "b">>}}

InitConfig ==
    /\ IdleOthersConfig
    /\ gconfig \in Configs(MaxDepth)
    /\ gexists \in SUBSET Paths
    /\ gcall = <<>>

\* load_config_file_as_dict line 185: _resolve_paths_in_config(raw_config, filepath)
CallResolvePaths ==
    /\ gcall = <<>>
    /\ LET r == _resolve_paths_in_config(gconfig, ConfigFile, gexists)
       IN  /\ gconfig' = r.config
           /\ gcall' = [before |-> gconfig, err |-> r.err]
    /\ UNCHANGED gexists
    /\ UNCHANGED OthersThanConfig

NextConfig == CallResolvePaths

SpecConfig == InitConfig /\ [][NextConfig]_vars

-----------------------------------------------------------------------------
(* The list objects of lint_indent_points (reindent.py lines 879-939).  A   *)
(* list is an object of the heap and a name holds its identity, so that a  *)
(* write through one name shows through every other name of the same list. *)

\* Bound of the sequences of blocks
MaxListBlocks == 3

\* mutant of copy: the name is bound to the list itself
copy_SameList(heap, ref) == [heap |-> heap, ref |-> ref]

\* list.copy(): a new list object with the same elements
copy(heap, ref) == [heap |-> Append(heap, heap[ref]), ref |-> Len(heap) + 1]

\* the call is given a list of at most MaxListBlocks blocks before the end
\* of file; nothing else is on the heap
InitLists ==
    /\ IdleOthersLists
    /\ \E n \in 1..MaxListBlocks :
         \E metas \in [1..n -> PointMetas] :
           /\ BalancedFrom(metas, 1, 0)
           /\ \E nls \in [1..n -> BOOLEAN] :
                \E wss \in [1..n -> 0..MaxWs] :
                  /\ \A i \in 1..n : ~nls[i] => wss[i] = 0
                  /\ \E blocks \in [1..n -> Blocks] :
                       \E initial \in InitialPoints :
                         lgiven = Elements(initial, blocks, metas, nls, wss)
    /\ lheap = <<lgiven>>
    /\ lelements = 1
    /\ lbuf = 0
    /\ lpc = "start"
    /\ llines = <<>>
    /\ lline = 0
    /\ lforced = <<>>
    /\ lresults = <<>>

\* lines 905-933: the lines are mapped and revised from elements, and
\* elem_buffer = elements.copy(); an exception of the revision ends the call
CopyElements ==
    /\ lpc = "start"
    /\ LET elements == lheap[lelements]
           lines == _map_line_buffers(elements)
           revised == ReviseGroups(lines, elements, SortedGroups(lines, elements), 1)
           made == copy(lheap, lelements)
       IN  IF revised.err # "none"
           THEN /\ lpc' = "raised"
                /\ UNCHANGED <<lheap, lbuf, llines, lline>>
           ELSE /\ llines' = _revise_comment_lines(KeptLines(revised.lines, elements),
                                                   elements)
                /\ lheap' = made.heap
                /\ lbuf' = made.ref
                /\ lline' = 1
                /\ lpc' = "lint"
    /\ UNCHANGED <<lelements, lgiven, lforced, lresults>>
    /\ UNCHANGED OthersThanLists

\* lines 934-937: one turn of the loop; _lint_line_buffer_indents and the
\* functions it calls assign to elements[idx] of the list they are given
\* (lines 639, 700 and 791), which is the list elem_buffer names
LintLineOfBuffer ==
    /\ lpc = "lint"
    /\ lline <= Len(llines)
    /\ LET st == _lint_line_buffer_indents(
                     LintState(lheap[lbuf], lforced, lresults, "none"), llines[lline])
       IN  /\ lheap' = [lheap EXCEPT ![lbuf] = st.elems]
           /\ lforced' = st.forced
           /\ lresults' = st.results
           /\ IF st.err = "none"
              THEN lline' = lline + 1 /\ UNCHANGED lpc
              ELSE lpc' = "raised" /\ UNCHANGED lline
    /\ UNCHANGED <<lelements, lgiven, lbuf, llines>>
    /\ UNCHANGED OthersThanLists

\* line 939: return elem_buffer, results
ReturnBuffer ==
    /\ lpc = "lint"
    /\ lline > Len(llines)
    /\ lpc' = "returned"
    /\ UNCHANGED <<lheap, lelements, lgiven, lbuf, llines, lline, lforced, lresults>>
    /\ UNCHANGED OthersThanLists

NextLists == CopyElements \/ LintLineOfBuffer \/ ReturnBuffer

SpecLists == InitLists /\ [][NextLists]_vars

-----------------------------------------------------------------------------
(* Claims about MatchResult2.apply *)

RECURSIVE InsertsInside(_)
\* every insert of m and of its descendants lies in the owner's [start, stop]
InsertsInside(m) ==
    /\ \A i \in 1..Len(m.inserts) : m.start <= m.inserts[i][1] /\ m.inserts[i][1] <= m.stop
    /\ \A k \in 1..Len(m.kids) : InsertsInside(m.kids[k])

RECURSIVE RawIsSingle(_)
\* every match of a raw class, at any depth, spans exactly one token
RawIsSingle(m) ==
    /\ m.cls = "Raw" => MRLen(m) = 1
    /\ \A k \in 1..Len(m.kids) : RawIsSingle(m.kids[k])

ApplyRoundTrips ==
    NonMetaLeaves(applied.segs) = LeafIds(PySlice(segments, match.start, match.stop))

\* C1 as stated: for every match of non-zero length whose children lie inside
\* its slice and do not overlap, the leaves of apply()'s result without the
\* inserted metas are exactly segments[start:stop].
C1_ApplyReproducesSlice ==
    (mrpc = "applied" /\ applied.ok) => ApplyRoundTrips

\* C1 amended: the same, for matches whose inserts (at every depth) lie within
\* the owning match's slice and whose raw-class matches span one token:
\* whenever apply() returns, the leaves without the metas are segments[start:stop].
C1_ApplyReproducesSliceInsertsInside ==
    (mrpc = "applied" /\ applied.ok /\ InsertsInside(match) /\ RawIsSingle(match))
        => ApplyRoundTrips

\* C1 witness: a match with two children and an insert has been applied
C1_Witness ==
    /\ mrpc = "applied" /\ applied.ok
    /\ InsertsInside(match) /\ RawIsSingle(match)
    /\ Len(match.kids) = 2 /\ match.inserts # <<>>
    /\ \E k \in 1..2 : match.kids[k].inserts # <<>>

-----------------------------------------------------------------------------
(* Claims about the parse driver *)

GrammarKeptText == check_still_complete(lastm.before, lastm.matched, lastm.unmatched)

\* C2: parse and expand never leave a segment with children whose raw text
\* differs from the text they started from, and a grammar result that does not
\* reproduce the text raises RuntimeError and is not assigned.
C2_CompletenessChecked ==
    /\ SegRawP(tree) = SegRawP(tree0)
    /\ \A f \in 1..Len(stack) :
          join_segments_raw(GetAt(tree, stack[f].path).kids) = stack[f].raw0
    /\ (lastm.called /\ ~GrammarKeptText) =>
          /\ perr = "RuntimeError"
          /\ GetAt(tree, lastm.path).kids = lastm.before

\* C2 witness: a grammar result that lost text was refused, inside an expansion
C2_Witness ==
    /\ lastm.called /\ ~GrammarKeptText /\ perr = "RuntimeError"
    /\ Len(lastm.path) >= 1

\* the parse() call whose grammar has just been applied
JustMatched ==
    /\ stack # <<>> /\ lastm.called
    /\ lastm.path = Top.path /\ Top.phase \in {"parse", "recurse"}

\* C4: a parse grammar that matches nothing, or only a prefix, never makes
\* parse fail: the children become one UnparsableSegment over all the original
\* children, or the matched segments followed by one UnparsableSegment over all
\* the unmatched ones; a complete match adds none; parse goes on to expansion.
C4_UnmatchedIsWrapped ==
    (JustMatched /\ GrammarKeptText /\ validate_segments(lastm.matched \o lastm.unmatched)) =>
        LET m == [matched |-> lastm.matched, unmatched |-> lastm.unmatched]
            now == GetAt(tree, Top.path).kids
        IN  /\ perr = "none" /\ Top.phase = "recurse"
            /\ ~has_match(m) => now = <<UnparsableSegment(lastm.before)>>
            /\ (has_match(m) /\ ~is_complete(m)) =>
                   now = m.matched \o <<UnparsableSegment(m.unmatched)>>
            /\ is_complete(m) => now = m.matched

\* C4 witness: a prefix was matched and the rest wrapped, two segments of it
C4_Witness ==
    /\ JustMatched /\ perr = "none" /\ Top.phase = "recurse"
    /\ Len(lastm.matched) > 0 /\ Len(lastm.unmatched) = 2
    /\ GrammarKeptText

RECURSIVE InsideUnparsable(_, _)
\* the path leads through an UnparsableSegment to a segment nested in it
InsideUnparsable(seg, path) ==
    /\ path # <<>>
    /\ \/ seg.cls = "Unparsable"
       \/ InsideUnparsable(seg.kids[Head(path)], Tail(path))

\* C7: no segment nested inside an UnparsableSegment is ever parsed (matched
\* against a grammar or expanded).
C7_UnparsableIsTerminal ==
    \A f \in 1..Len(stack) : ~InsideUnparsable(tree, stack[f].path)

-----------------------------------------------------------------------------
(* Claims about failed matches *)

\* C8: a failed match is a value: empty_at(i) is the slice [i, i), of length 0,
\* not clean and falsy; BaseSegment.match, when its match grammar matches
\* nothing, returns no matched segments and all its input unmatched.
C8_FailedMatchIsAValue ==
    /\ eres.made =>
          /\ eres.m.start = eres.idx /\ eres.m.stop = eres.idx
          /\ MRLen(eres.m) = 0
          /\ ~eres.m.clean
          /\ ~MRBool(eres.m)
    /\ (mres.kind # "none" /\ gres.called /\ gres.ok /\ ~has_match(gres)) =>
          /\ mres.kind = "return"
          /\ mres.matched = <<>>
          /\ mres.unmatched = msegs

\* C8 witness: an empty match was made at a positive index, and a match grammar
\* that matched nothing of two or more segments was answered by a return
C8_Witness ==
    /\ eres.made /\ eres.idx = 2
    /\ gres.called /\ gres.ok /\ ~has_match(gres)
    /\ Len(msegs) >= 2 /\ mres.kind = "return"

-----------------------------------------------------------------------------
(* Claims about the grammars *)

AltLens == [i \in 1..Len(oalts) |-> MatchLen(oalts[i], otoks)]

\* C3: the match OneOf returns is as long as the longest match of any of its
\* alternatives at that start, and of the alternatives that match with that
\* length the one declared first is returned.
C3_LongestFirstWins ==
    ores.done =>
        /\ \A i \in 1..Len(oalts) : AltLens[i] <= ores.len
        /\ ores.len > 0 =>
              /\ ores.alt \in 1..Len(oalts)
              /\ AltLens[ores.alt] = ores.len
              /\ \A i \in 1..(ores.alt - 1) : AltLens[i] < ores.len
        /\ ores.len = 0 => ores.alt = 0

\* C3 witness: a shorter match declared first, then two alternatives that tie
\* on the longest match; the first of the two is returned
C3_Witness ==
    /\ ores.done /\ Len(oalts) = 3
    /\ AltLens[1] = 1 /\ AltLens[2] = 3 /\ AltLens[3] = 3
    /\ ores.alt = 2 /\ ores.len = 3

BarDotBarFoo == <<"bar", ".", "bar", "foo">>

BarGapDotGapBar == <<"bar", " ", ".", " ", "bar">>

\* C9: a Delimited match has length 0 whenever fewer than min_delimiters
\* delimiters were matched, even if elements matched: bar . bar foo gives 3
\* with min_delimiters 1 and 0 with 2; bar ws . ws bar without gaps gives 1
\* with min_delimiters 0 and 0 with 1.
C9_MinDelimiters ==
    dres.done =>
        /\ dres.delims < dcfg.min_delimiters => dres.len = 0
        /\ (dtoks = BarDotBarFoo /\ dcfg.min_delimiters = 1) => dres.len = 3
        /\ (dtoks = BarDotBarFoo /\ dcfg.min_delimiters = 2) => dres.len = 0
        /\ (dtoks = BarGapDotGapBar /\ ~dcfg.allow_gaps /\ dcfg.min_delimiters = 0)
              => dres.len = 1
        /\ (dtoks = BarGapDotGapBar /\ ~dcfg.allow_gaps /\ dcfg.min_delimiters = 1)
              => dres.len = 0

\* C9 witness: two elements and one delimiter matched, two delimiters required
C9_Witness ==
    /\ dres.done /\ dtoks = BarDotBarFoo
    /\ dcfg.min_delimiters = 2 /\ dres.delims = 1 /\ dres.len = 0

-----------------------------------------------------------------------------
(* Claims about the reindent engine *)

\* the raw text of the points of a sequence (the blocks keep theirs)
PointsRaw(elements) ==
    [k \in 1..Len(elements) |-> <<elements[k].nl, elements[k].ws>>]

SecondCallEnded == rpass = 2 /\ rpc \in {"returned", "raised"}

\* C5: lint_indent_points called on the elements it returned returns a
\* sequence with the same raw text and an empty list of results.
C5_LintIsIdempotent ==
    SecondCallEnded =>
        /\ rpc = "returned"
        /\ rresults = <<>>
        /\ PointsRaw(rbuf) = PointsRaw(rout1.elems)

\* the balance reached at the trough of the first point of the line
TroughBalance(line) ==
    line.indent_points[1].initial_indent_balance + line.indent_points[1].indent_trough

\* the untaken indents of the first point that do not exceed that balance
RemainingUntaken(line) ==
    LET Keep(i) == i <= TroughBalance(line)
    IN  SelectSeq(line.indent_points[1].untaken_indents, Keep)

\* C6: desired_indent_units is the initial balance of the line, minus the
\* number of untaken indents of its first point that do not exceed the balance
\* at the trough of that point, plus the number of forced indents.
C6_DesiredIndentUnits ==
    rdes # <<>> =>
        rdes.units = rdes.line.initial_indent_balance
                        - Len(RemainingUntaken(rdes.line)) + Len(rdes.forced_indents)

Case3Turn == rpc = "revise" /\ rrev # <<>> /\ rrev.case = 3

\* C10: in case 3 every line of the group is set to the minimum of the
\* balances the group had, and every line strictly between the first and the
\* last line of the group that is not in it is reduced by exactly one.
C10_Case3MinimumAndReduce ==
    Case3Turn =>
        /\ \A idx \in rrev.group :
              rlines[idx].initial_indent_balance
                  = Min({rrev.lines[i].initial_indent_balance : i \in rrev.group})
        /\ \A idx \in (Min(rrev.group) + 1)..(Max(rrev.group) - 1) :
              idx \notin rrev.group =>
                  rlines[idx].initial_indent_balance
                      = rrev.lines[idx].initial_indent_balance - 1

C10_Witness ==
    /\ Case3Turn
    /\ \E idx \in (Min(rrev.group) + 1)..(Max(rrev.group) - 1) : idx \notin rrev.group

Case2Turn == rpc = "revise" /\ rrev # <<>> /\ rrev.case = 2

\* the balances every line of the group can reach and the limit allows
SharedBalances == RevisionOverlap(rrev.lines, relems, rrev.group)

CommentInput == KeptLines(rlines, relems)

\* the nearest line after idx that is not comment-only, 0 when there is none
NextNonComment(lines, idx) ==
    LET later == {j \in (idx + 1)..Len(lines) : ~is_all_comments(lines[j], relems)}
    IN  IF later = {} THEN 0 ELSE Min(later)

\* C12: _revise_comment_lines gives every comment-only line the balance of the
\* nearest following line that is not comment-only, or 0 when none follows,
\* and leaves the balance of every other line as it was.
C12_CommentLinesAnchored ==
    [][(rpc = "revise" /\ rpc' = "lint") =>
          /\ Len(rlines') = Len(CommentInput)
          /\ \A idx \in 1..Len(CommentInput) :
                rlines'[idx].initial_indent_balance =
                    IF ~is_all_comments(CommentInput[idx], relems)
                    THEN CommentInput[idx].initial_indent_balance
                    ELSE IF NextNonComment(CommentInput, idx) = 0 THEN 0
                    ELSE CommentInput[NextNonComment(CommentInput, idx)].initial_indent_balance
      ]_vars

\* the comment revision moved a line onto the balance of a later line
C12_Witness ==
    /\ rpc = "lint"
    /\ rline = 1
    /\ rrev = <<>>
    /\ \E idx \in 1..Len(rlines) :
          /\ is_all_comments(rlines[idx], relems)
          /\ NextNonComment(rlines, idx) # 0
          /\ rlines[idx].initial_indent_balance
                = rlines[NextNonComment(rlines, idx)].initial_indent_balance
          /\ rlines[idx].initial_indent_balance
                # from_points(rlines[idx].indent_points).initial_indent_balance

\* a turn of the loop of lint_indent_points is about to lint this line
LintTurn == rpc = "lint" /\ rline <= Len(rlines)

LintedLine == rlines[rline]

\* the balance at the closing trough of a line
ClosingTrough(line) ==
    LET last == Last(line.indent_points)
    IN  last.initial_indent_balance
            + (IF last.indent_trough # 0 THEN last.indent_trough ELSE last.indent_impulse)

\* the line closes deeper than it opens, at an untaken indent of its last point
ClosesAtUntaken(line) ==
    /\ closing_balance(line) > opening_balance(line)
    /\ \E k \in 1..Len(Last(line.indent_points).untaken_indents) :
          Last(line.indent_points).untaken_indents[k] = ClosingTrough(line)

\* the first point of the line that closes at its closing trough, 0 for none
ForcedAt(line) == FirstClosingAt(line.indent_points, 1, ClosingTrough(line))

\* nothing is in the sequence t more often than in the sequence s
NothingAdded(s, t) ==
    \A x \in {t[k] : k \in 1..Len(t)} :
        Cardinality({k \in 1..Len(t) : t[k] = x}) <= Cardinality({k \in 1..Len(s) : s[k] = x})

\* C13: a line that closes deeper than it opens, at an untaken indent of its
\* last point, gets a line break and indent at its first point closing at that
\* balance, and the balance is appended to forced_indents; a line without such
\* a fix adds nothing to forced_indents; the desired indent of every line
\* counts the forced indents there are.
C13_PositiveIndentForced ==
    [][LintTurn =>
          /\ rdes'.units = desired_indent_units(LintedLine, <<>>) + Len(rforced)
          /\ IF ClosesAtUntaken(LintedLine)
             THEN /\ ForcedAt(LintedLine) # 0
                  /\ rerr' = "none"
                  /\ LET ip == LintedLine.indent_points[ForcedAt(LintedLine)]
                     IN  /\ El(rbuf', ip.idx).nl
                         /\ El(rbuf', ip.idx).ws
                               = IndentString(closing_indent_balance(ip)
                                                - Len(ip.untaken_indents))
                  /\ rforced' = Append(rforced, ClosingTrough(LintedLine))
             ELSE NothingAdded(rforced, rforced')
      ]_vars

NegativeDone == nout # <<>>

\* the element after elements[idx] is a comment, a statement terminator, or
\* holds the placeholder of a template block
BeforeProtected(elements, idx) ==
    LET following == El(elements, idx + 1)
    IN  \/ following.btype \in {"comment", "statement_terminator"}
        \/ following.btype = "placeholder" /\ following.uuid # 0

\* C14: whatever the indent balances and the forced indents are,
\* _lint_line_untaken_negative_indents returns no fix anchored at a point of
\* its line that is followed by a comment, a statement terminator or the
\* placeholder of a template block, and the buffer it returns holds that point
\* as it was given.
C14_NoBreakBeforeProtected ==
    NegativeDone =>
        \A k \in 1..Len(nline.indent_points) :
            LET idx == nline.indent_points[k].idx
            IN  idx + 1 < Len(nelems) /\ BeforeProtected(nelems, idx) =>
                    /\ El(nout.elems, idx) = El(nelems, idx)
                    /\ \A r \in 1..Len(nout.results) : nout.results[r].idx # idx

\* a dedent the function would have broken the line at, had a statement
\* terminator not followed it
C14_Witness ==
    /\ NegativeDone
    /\ closing_balance(nline) < opening_balance(nline)
    /\ \E k \in 1..(Len(nline.indent_points) - 1) :
           LET ip == nline.indent_points[k]
           IN  /\ ~ip.is_line_break
               /\ ip.indent_impulse < 0
               /\ ip.untaken_indents = <<>>
               /\ El(nelems, ip.idx + 1).btype = "statement_terminator"

-----------------------------------------------------------------------------
(* Claims about Rule L003 *)

\* the line the last call judged, its number, and the last line before it
\* that holds code
JudgedLine == hcall.this_line
JudgedLineNo == Len(hcall.res) + 1
HasMeaningfulLine == \E k \in 1..Len(hcall.res) : hcall.res[k].type = "code"
MeaningfulLineNo ==
    CHOOSE k \in 1..Len(hcall.res) :
        /\ hcall.res[k].type = "code"
        /\ \A j \in (k + 1)..Len(hcall.res) : hcall.res[j].type # "code"
MeaningfulLine == hcall.res[MeaningfulLineNo]
AtHangingIndent == JudgedLine.indent_size = MeaningfulLine.hanging_indent
AtIndentOfHanger ==
    /\ JudgedLine.indent_size = MeaningfulLine.indent_size
    /\ InList(MeaningfulLineNo, hcall.memory.hanging_lines)
AcceptedAsHanger == ~hcall.fixes /\ InList(JudgedLineNo, hmem.hanging_lines)

\* C15 as stated: a line of nonzero indent size at the hanging indent of the
\* previous meaningful line, or at the indent size of a previous meaningful
\* line that is a recorded hanger, gets no fix and is recorded in
\* hanging_lines; a line of indent size zero is never recorded.
C15_HangerAccepted ==
    hcall # <<>> =>
        /\ JudgedLine.indent_size > 0 /\ HasMeaningfulLine
             /\ (AtHangingIndent \/ AtIndentOfHanger)
             => AcceptedAsHanger
        /\ JudgedLine.indent_size = 0 => ~InList(JudgedLineNo, hmem.hanging_lines)

\* C15, amended: the same for a line that is not a comment line, and with
\* the second alternative only when the line has the anchor indent balance
\* of the previous meaningful line as well.
C15_HangerAcceptedAtSameBalance ==
    hcall # <<>> =>
        /\ ~JudgedLine.is_comment_line /\ JudgedLine.indent_size > 0 /\ HasMeaningfulLine
             /\ \/ AtHangingIndent
                \/ /\ AtIndentOfHanger
                   /\ JudgedLine.anchor_indent_balance = MeaningfulLine.anchor_indent_balance
             => AcceptedAsHanger
        /\ JudgedLine.indent_size = 0 => ~InList(JudgedLineNo, hmem.hanging_lines)

\* a line accepted for being at the indent of the hanger before it
C15_Witness ==
    /\ hcall # <<>>
    /\ ~JudgedLine.is_comment_line /\ JudgedLine.indent_size > 0 /\ HasMeaningfulLine
    /\ ~AtHangingIndent
    /\ AtIndentOfHanger
    /\ JudgedLine.anchor_indent_balance = MeaningfulLine.anchor_indent_balance
    /\ AcceptedAsHanger

-----------------------------------------------------------------------------
(* Claims about MatchResult2.append and MatchResult2.wrap *)

\* C16: a call of append or wrap leaves every match there was before it, the
\* operands among them, with its matched_slice, matched_class,
\* segment_kwargs, insert_segments, child_matches and is_clean, and leaves
\* every dict with its content; what it builds is at most one new match, the
\* one it returns.
C16_OperandsUnchanged ==
    [][/\ \A ref \in 1..Len(cheap) : ref <= Len(cheap') /\ cheap'[ref] = cheap[ref]
       /\ \A d \in 1..Len(ckw) : d <= Len(ckw') /\ ckw'[d] = ckw[d]
       /\ Len(cheap') <= Len(cheap) + 1
       /\ Len(cheap') = Len(cheap) + 1 => clast'.result = Len(cheap')
      ]_vars

\* append has built a new match over two operands that both stay as children
C16_Witness ==
    /\ clast # <<>>
    /\ clast.op = "append"
    /\ clast.result = Len(cheap)
    /\ clast.result \notin {clast.self, clast.other}
    /\ cheap[clast.result].child_matches = <<clast.self, clast.other>>
    /\ cheap[clast.result].matched_slice # cheap[clast.self].matched_slice

-----------------------------------------------------------------------------
(* Claims about BaseSegment.apply_fixes *)

\* C17: a call of apply_fixes leaves every segment there was before it, the
\* segment it is called on and the segments below it among them, with its
\* children and its position marker, whatever the fixes are; what the fixes
\* delete, replace or put in shows in the segment returned only.
C17_SegmentUnchanged ==
    [][\A ref \in 1..Len(fheap) : ref <= Len(fheap') /\ fheap'[ref] = fheap[ref]]_vars

\* apply_fixes returned another segment, of another content, than the one it
\* was called on
C17_Witness ==
    /\ fcall # <<>>
    /\ fcall.op = "apply_fixes"
    /\ fcall.err = "none"
    /\ fcall.result # froot
    /\ fcall.fixes = <<>>
    /\ ObjectRaw(fheap, fcall.result) # ObjectRaw(fheap, froot)

-----------------------------------------------------------------------------
(* Claims about the validation of segments *)

RECURSIVE FirstLeaf(_)
FirstLeaf(seg) == IF seg.kids = <<>> THEN seg ELSE FirstLeaf(seg.kids[1])

RECURSIVE LastLeaf(_)
LastLeaf(seg) == IF seg.kids = <<>> THEN seg ELSE LastLeaf(seg.kids[Len(seg.kids)])

\* the start and the end position marker of a child
StartOf(seg) == FirstLeaf(seg).pos
EndOf(seg) == LastLeaf(seg).pos + Len(LastLeaf(seg).raw)

\* every child starts where the child before it ends, and ends where its
\* start advanced by its raw text is
Contiguous(segs) ==
    \A k \in 1..Len(segs) :
        /\ k > 1 => StartOf(segs[k]) = EndOf(segs[k - 1])
        /\ StartOf(segs[k]) + Len(SegRawP(segs[k])) = EndOf(segs[k])

\* a step of parse that passes a validation: the one after the match
\* ("parsing"), or the one before parse returns ("expanding")
PassesValidation ==
    /\ perr = "none" /\ perr' = "none" /\ stack # <<>>
    /\ \/ Len(stack') < Len(stack)
       \/ /\ Len(stack') = Len(stack)
          /\ Top.phase = "parse" /\ stack'[Len(stack)].phase = "recurse"
          /\ _parse_grammar(GetAt(tree, Top.path).cls)

\* C18: parse never gets past a validation with children that are not
\* contiguous: when a child does not start where the child before it ends, or
\* its start advanced by its raw is not its end, TypeError is raised instead.
C18_NonContiguousRejected ==
    [][PassesValidation => Contiguous(GetAt(tree', Top.path).kids)]_vars

\* the grammar kept the text but not the places, and parse raised TypeError
C18_Witness ==
    /\ perr = "TypeError"
    /\ stack # <<>>
    /\ lastm.called
    /\ join_segments_raw(lastm.matched \o lastm.unmatched) = join_segments_raw(lastm.before)
    /\ ~Contiguous(GetAt(tree, Top.path).kids)

-----------------------------------------------------------------------------
(* Claims about the recursion of parse and expand *)

\* a parse call is started from within another one
ParseCalled == Len(stack') > Len(stack)

\* the call parse() was first made with has returned or raised
ParseOver == stack = <<>> \/ perr # "none"

-----------------------------------------------------------------------------
(* Claims about the errors of the reindent engine *)

\* C20: every turn of the loop of _revise_templated_lines over the groups
\* ends in one of its cases: the balances are the same already (case 1), a
\* shared balance is taken (case 2), or the lowest balance is (case 3); none
\* raises, whatever the lines of the group are and wherever they stand.
C20_RevisionNeverRaises ==
    rrev # <<>> => rrev.case \in {1, 2, 3} /\ rerr # "ValueError"

-----------------------------------------------------------------------------
(* Claims about the untaken indents of _crawl_indent_points *)

\* the lowest balance reached inside the last point crossed
LowestInside ==
    IF klast.indent_trough < klast.indent_impulse
    THEN klast.indent_balance + klast.indent_trough
    ELSE klast.indent_balance + klast.indent_impulse

\* C21: after a point is crossed, every untaken indent carried forward from
\* before it is not greater than the lowest balance reached inside the point
\* (the balance before it plus its trough when the trough is below the
\* impulse, otherwise the closing balance).
C21_StrippedToTrough ==
    klast # <<>> =>
        \A i \in 1..Len(klast.kept) : klast.kept[i] <= LowestInside

\* C27: in every _IndentPoint yielded, untaken_indents holds pairwise
\* distinct values, each not greater than the indent balance before the point.
C27_UntakenDistinctAndOpen ==
    \A p \in 1..Len(kyield) :
        LET untaken == kyield[p].untaken_indents
        IN  /\ \A i, j \in 1..Len(untaken) : i # j => untaken[i] # untaken[j]
            /\ \A i \in 1..Len(untaken) : untaken[i] <= kyield[p].initial_indent_balance

-----------------------------------------------------------------------------
(* Claims about the lines of a template block *)

\* _revise_templated_lines has returned: the loop over the groups is over
TemplatedRevised == rpc = "lint" /\ rline = 1 /\ rpass = 1

\* the block_uuid of the first block of a line of placeholders only, 0 for
\* any other line
StartsWith(line, elements) ==
    IF is_all_templates(line, elements)
    THEN El(elements, Min(iter_blocks(line, elements))).uuid
    ELSE 0

\* C22: after _revise_templated_lines returns, all template-only lines that
\* start with a placeholder of the same block UUID have the same
\* initial_indent_balance.
C22_BlockLinesShareBalance ==
    TemplatedRevised =>
        \A i, j \in 1..Len(rlines) :
            /\ StartsWith(rlines[i], relems) # 0
            /\ StartsWith(rlines[i], relems) = StartsWith(rlines[j], relems)
            => rlines[i].initial_indent_balance = rlines[j].initial_indent_balance

-----------------------------------------------------------------------------
(* Claims about the slices of the matches append and wrap build *)

\* a match as MatchResult2.empty_at(idx) makes it
IsEmptyAt(m) ==
    /\ ObjectLen(m) = 0
    /\ m.matched_class = "None"
    /\ m.insert_segments = <<>>
    /\ m.child_matches = <<>>
    /\ ~m.is_clean

\* a clean match of one token, with or without a class
IsSingleToken(m) ==
    /\ ObjectLen(m) = 1
    /\ m.insert_segments = <<>>
    /\ m.child_matches = <<>>
    /\ m.is_clean

\* the two matches the calls start from
BuiltFromLeaves ==
    /\ Len(cheap) >= 2
    /\ \A ref \in 1..2 : IsEmptyAt(cheap[ref]) \/ IsSingleToken(cheap[ref])

\* the slices of the child matches of a match, in their order
ChildSlices(m) == [i \in 1..Len(m.child_matches) |-> cheap[m.child_matches[i]].matched_slice]

SlicesNest(m) ==
    LET slices == ChildSlices(m)
    IN  /\ m.matched_slice[1] <= m.matched_slice[2]
        /\ \A i \in 1..Len(slices) :
              /\ m.matched_slice[1] <= slices[i][1]
              /\ slices[i][2] <= m.matched_slice[2]
        /\ \A i \in 1..(Len(slices) - 1) : slices[i][1] <= slices[i + 1][1]
        /\ NoOverlap(slices)

\* C23: every match built from empty_at results and single-token matches by
\* calls of append and wrap that raise no assertion error has
\* matched_slice.stop >= matched_slice.start, and its child_matches are in
\* ascending order, lie within its matched_slice and do not overlap.
C23_ChildSlicesNest ==
    BuiltFromLeaves => \A ref \in 1..Len(cheap) : SlicesNest(cheap[ref])

\* append has put two single-token matches with a class side by side, and a
\* further call has built on the result
C23_Witness ==
    /\ BuiltFromLeaves
    /\ Len(cheap) = MaxMatches
    /\ \E ref \in 3..Len(cheap) :
          /\ Len(cheap[ref].child_matches) = 2
          /\ cheap[cheap[ref].child_matches[1]].matched_slice
                # cheap[cheap[ref].child_matches[2]].matched_slice
          /\ ObjectLen(cheap[ref]) = 2

-----------------------------------------------------------------------------
(* Claims about MatchResult2.is_better_than *)

\* C26: there are no two matches a and b for which both a.is_better_than(b)
\* and b.is_better_than(a) hold; an unclean match is never better than a
\* clean one, whatever their lengths.
C26_BetterIsAsymmetric ==
    clast # <<>> /\ clast.op = "is_better_than" /\ clast.result =>
        /\ ~is_better_than(cheap[clast.other], cheap[clast.self])
        /\ ~(~cheap[clast.self].is_clean /\ cheap[clast.other].is_clean)

-----------------------------------------------------------------------------
(* Claims about the forced indents of lint_indent_points *)

\* the turn about to be made forces a positive line break: the results of
\* _lint_line_untaken_positive_indents are not empty
PositiveForced ==
    LET start == _lint_line_starting_indent(rbuf, LintedLine, rforced)
    IN  _lint_line_untaken_positive_indents(start.elems, LintedLine).results # <<>>

\* C24: when _lint_line_buffer_indents finishes a line on which no positive
\* line break was forced, forced_indents holds no value greater than the
\* closing indent balance of the line, and the values not greater than it are
\* kept, in their order.
C24_ForcedPrunedToClosing ==
    [][LintTurn /\ rline' = rline + 1 /\ ~PositiveForced =>
          LET Kept(i) == i <= closing_balance(LintedLine)
          IN  /\ \A k \in 1..Len(rforced') : rforced'[k] <= closing_balance(LintedLine)
              /\ rforced' = SelectSeq(rforced, Kept)
      ]_vars

\* a line was linted with a forced indent above its closing balance, and the
\* forced indent is gone
C24_Witness ==
    /\ rpc = "lint"
    /\ rdes # <<>>
    /\ rdes.forced_indents # <<>>
    /\ \E k \in 1..Len(rdes.forced_indents) :
          rdes.forced_indents[k] > closing_balance(rdes.line)
    /\ rforced = <<>>

-----------------------------------------------------------------------------
(* Claims about the fixes apply_fixes consumes *)

CountOf(seq, v) == Cardinality({k \in 1..Len(seq) : seq[k] = v})

\* the fixes at the places K of ffixes are the fixes handed back, in any order
HandedBack(K) ==
    /\ Cardinality(K) = Len(fcall.fixes)
    /\ \A k \in 1..Len(ffixes) :
          CountOf(fcall.fixes, ffixes[k])
              = Cardinality({j \in K : ffixes[j] = ffixes[k]})

\* the segment object that holds ref among its segments, 0 for the root
ParentOf(ref) ==
    IF \E p \in 1..froot : \E c \in 1..Len(fheap[p].segments) : fheap[p].segments[c] = ref
    THEN CHOOSE p \in 1..froot : \E c \in 1..Len(fheap[p].segments) : fheap[p].segments[c] = ref
    ELSE 0

RECURSIVE SumOver(_, _)
SumOver(S, weight) ==
    IF S = {} THEN 0
    ELSE LET k == CHOOSE x \in S : TRUE
         IN  weight[k] + SumOver(S \ {k}, weight)

\* the fixes at the places U of ffixes, and no other, show in the segment
\* returned: what they put in is there once each, and what they took out is
\* gone
ShowsOnly(U) ==
    LET raw == ObjectRaw(fheap, fcall.result)
        put == {k \in U : ffixes[k].edit_type \in {"edit", "create"}}
        taken == {k \in U : ffixes[k].edit_type \in {"delete", "edit"}}
        size == [k \in 1..Len(ffixes) |-> Len(ObjectRaw(fheap, ffixes[k].anchor))]
    IN  /\ CountOf(raw, "x") = Cardinality(put)
        /\ Len(raw) = Len(ObjectRaw(fheap, froot)) + Cardinality(put) - SumOver(taken, size)

\* a fix handed back had no segment to match: its anchor is a meta segment,
\* or has consumed another fix, or went with its parent
NoSegmentFor(k, U) ==
    \/ is_meta(fheap[ffixes[k].anchor])
    \/ \E u \in U : ffixes[u].anchor = ffixes[k].anchor
    \/ \E u \in U : /\ ffixes[u].anchor = ParentOf(ffixes[k].anchor)
                    /\ ffixes[u].edit_type \in {"delete", "edit"}

\* C25: each fix is applied to at most one segment and a segment consumes at
\* most one fix: the fixes handed back are fixes that were given, the other
\* fixes are anchored at different segments and show once each in the segment
\* returned, and a fix handed back matched no segment.
C25_FixConsumedOnce ==
    fcall # <<>> /\ fcall.op = "apply_fixes" /\ fcall.err = "none" =>
        \E K \in SUBSET (1..Len(ffixes)) :
            LET U == (1..Len(ffixes)) \ K
            IN  /\ HandedBack(K)
                /\ \A u, v \in U : u # v => ffixes[u].anchor # ffixes[v].anchor
                /\ ShowsOnly(U)
                /\ \A k \in K : NoSegmentFor(k, U)

\* two fixes were given for the same segment: one was consumed, the other was
\* handed back
C25_Witness ==
    /\ fcall # <<>>
    /\ fcall.op = "apply_fixes"
    /\ fcall.err = "none"
    /\ Len(ffixes) = 2
    /\ ffixes[1].anchor = ffixes[2].anchor
    /\ ffixes[1] # ffixes[2]
    /\ Len(fcall.fixes) = 1
    /\ fcall.result # froot

-----------------------------------------------------------------------------
(* Claims about the fix of an over-indented line *)

\* the indent count of an indent of the given length
IndentNum(indent_size) == indent_size \div tab_space_size

\* C29: when a line is reported as over-indented compared to line k, the fix
\* sets its indent to an indent the rule accepts relative to line k: an indent
\* count greater than that of line k and at most that of line k plus the
\* difference in indent balance, never an empty indent.
C29_OverIndentFixedToLowest ==
    hcall # <<>> /\ hcall.description = "Line over-indented" =>
        LET prev_line == hcall.res[hcall.compared_to]
            indent_diff == hcall.this_line.anchor_indent_balance
                               - prev_line.anchor_indent_balance
        IN  /\ IndentNum(hcall.this_line.indent_size)
                  > IndentNum(prev_line.indent_size) + indent_diff
            /\ hcall.desired_indent > 0
            /\ IndentNum(hcall.desired_indent) > IndentNum(prev_line.indent_size)
            /\ IndentNum(hcall.desired_indent)
                  <= IndentNum(prev_line.indent_size) + indent_diff

-----------------------------------------------------------------------------
(* Claims about the paths of a config file *)

RECURSIVE PathsResolved(_, _)
\* every string value under a path key of the dict after, at any depth, is
\* what the value of the dict before resolves to: the resolved path where it
\* exists, the value as it was where it does not
PathsResolved(before, after) ==
    /\ DOMAIN after = DOMAIN before
    /\ \A key \in DOMAIN before :
          IF before[key].kind = "dict"
          THEN after[key].kind = "dict" /\ PathsResolved(before[key].val, after[key].val)
          ELSE after[key] = StrVal(LocalVal(key, before[key].val, ConfigFile, gexists))

\* C28: after _resolve_paths_in_config returns, every string value under a
\* key ending in _path or _dir, and every comma-separated entry of
\* load_macros_from_path and loader_search_path, whose path relative to the
\* directory of the config file exists is replaced in the config by the
\* resolved path, at any depth; the other values are unchanged.
C28_PathsResolvedInConfig ==
    gcall # <<>> /\ gcall.err = "none" => PathsResolved(gcall.before, gconfig)

-----------------------------------------------------------------------------
(* Claims about the list lint_indent_points is given *)

\* C30: lint_indent_points does not modify the list it is given: at every
\* point of the call, and after it, the list holds the elements it held when
\* the call was made, in the same order; the points are replaced in the
\* working copy, another list object, which is the one returned.
C30_InputListUntouched ==
    /\ lheap[lelements] = lgiven
    /\ lbuf # 0 => lbuf # lelements

\* the call returned a sequence that differs from the one it was given
C30_Witness ==
    /\ lpc = "returned"
    /\ lresults # <<>>
    /\ lheap[lbuf] # lgiven
    /\ lheap[lelements] = lgiven

====
